---- MODULE Spec2Model ----
(***************************************************************************)
(* A model of the c-slang C-to-WebAssembly compiler's processor:           *)
(*   - the data type utilities (size, unpacking, compatibility,            *)
(*     assignability) of src/unnamed/part_001,                             *)
(*   - the scope-building visitor of src/ctowasm/src/processor/index.ts,   *)
(*   - the declaration processing and the initializer unpackers of         *)
(*     src/unnamed/part_002.                                               *)
(* The pure utilities are checked under specifications whose Init draws    *)
(* the arguments from bounded sets of data types and whose single action   *)
(* applies the utility and records what it returned.                       *)
(***************************************************************************)
EXTENDS Integers, Sequences, FiniteSets, TLC

VARIABLES
  typA,              \* first data type argument (a / lvalue / dataType)
  typB,              \* second data type argument (b)
  ignoreQualifiers,  \* the ignoreQualifiers argument
  exprW,             \* an ExpressionWrapperP argument
  declaration,       \* a Declaration node argument
  fieldTag,          \* a field tag argument
  phase,             \* "input" before the utility ran, then the utility's name
  result,            \* what the utility returned
  scopeStack,        \* the visitor's stack of scopes; the parentScope of each is the one below it
  frames,            \* the visit calls in progress, innermost last
  fn,                \* the FunctionDefinition node being, or last, processed
  declared,          \* the bytes of the locals declared so far in that function's body
  error,             \* the message of the ProcessingError thrown, "" while none
  nodes              \* the number of nodes visited so far

typeVars == <<typA, typB, ignoreQualifiers, exprW, declaration, fieldTag, phase, result>>

visitVars == <<scopeStack, frames, fn, declared, error, nodes>>

vars == <<typA, typB, ignoreQualifiers, exprW, declaration, fieldTag, phase, result,
          scopeStack, frames, fn, declared, error, nodes>>

(***************************************************************************)
(* Bounds of the input domains.                                            *)
(***************************************************************************)
MaxNumElements == 2   \* largest array element count drawn
MaxFields == 2        \* largest number of struct fields drawn
MaxParams == 1        \* largest number of function parameters drawn
MaxNodes == 5         \* largest number of AST nodes the visitor is given
MaxDepth == 4         \* deepest nesting of visit calls in progress
MaxValues == 3        \* longest initializer list of single expressions
MaxSubValues == 2     \* longest brace list nested in an initializer list
MaxDetailParams == 2  \* largest number of parameters of a function whose details are built
MaxIndexedFields == 3 \* largest number of fields of a struct whose fields are looked up

(***************************************************************************)
(* Data types (the closed sum of parser/c-ast/dataTypes).  isConst is an   *)
(* optional field in the source; an absent isConst is falsy and is FALSE   *)
(* here.                                                                   *)
(***************************************************************************)
PrimaryDataType(p, c) == [type |-> "primary", primaryDataType |-> p, isConst |-> c]

PointerDataType(t, c) == [type |-> "pointer", pointeeType |-> t, isConst |-> c]

IntegerConstant(n) == [type |-> "IntegerConstant", value |-> n]

FloatConstant(n) == [type |-> "FloatConstant", value |-> n]

ArrayDataType(t, sizeExpr) ==
  [type |-> "array", elementDataType |-> t, numElements |-> sizeExpr, isConst |-> FALSE]

StructField(tag, t) == [tag |-> tag, dataType |-> t]

StructDataType(tag, fields, c) ==
  [type |-> "struct", tag |-> tag, fields |-> fields, isConst |-> c]

StructSelfPointer == [type |-> "struct self pointer"]

EnumDataType(tag, c) == [type |-> "enum", tag |-> tag, isConst |-> c]

FunctionDataType(ret, params) ==
  [type |-> "function", returnType |-> ret, parameters |-> params, isConst |-> FALSE]

VoidDataType(c) == [type |-> "void", isConst |-> c]

(***************************************************************************)
(* Constants of common/constants and common/utils.                         *)
(***************************************************************************)
POINTER_SIZE == 4

ENUM_DATA_TYPE == "signed int"

primaryDataTypeSizes ==
  [p \in {"unsigned char", "signed char", "unsigned short", "signed short",
          "unsigned int", "signed int", "unsigned long", "signed long",
          "float", "double"} |->
     CASE p \in {"unsigned char", "signed char"} -> 1
       [] p \in {"unsigned short", "signed short"} -> 2
       [] p \in {"unsigned int", "signed int", "float"} -> 4
       [] OTHER -> 8]

getSizeOfScalarDataType(scalar) ==
  IF scalar = "pointer" THEN POINTER_SIZE ELSE primaryDataTypeSizes[scalar]

isFloatType(p) == p \in {"float", "double"}

(***************************************************************************)
(* evaluateCompileTimeExpression on the expressions used as array sizes:   *)
(* a constant folds to itself, anything else is not a compile-time         *)
(* constant and throws a ProcessingError.                                  *)
(***************************************************************************)
evaluateCompileTimeExpressionThrows(e) ==
  e.type \notin {"IntegerConstant", "FloatConstant"}

evaluateCompileTimeExpression(e) ==
  CASE e.type = "IntegerConstant" -> [type |-> "IntegerConstant", value |-> e.value]
    [] e.type = "FloatConstant" -> [type |-> "FloatConstant", value |-> e.value]

getNumberOfElementsInArrayThrows(dataType) ==
  \/ evaluateCompileTimeExpressionThrows(dataType.numElements)
  \/ evaluateCompileTimeExpression(dataType.numElements).type = "FloatConstant"

getNumberOfElementsInArray(dataType) ==
  evaluateCompileTimeExpression(dataType.numElements).value

(***************************************************************************)
(* getDataTypeSize.  getDataTypeSizeThrows says when the call throws (void,*)
(* a function type, an array whose size does not fold); getDataTypeSize is *)
(* the value returned otherwise.                                           *)
(***************************************************************************)
RECURSIVE getDataTypeSizeThrows(_)
getDataTypeSizeThrows(dataType) ==
  CASE dataType.type \in {"primary", "pointer", "struct self pointer", "enum"} -> FALSE
    [] dataType.type = "array" ->
         \/ getNumberOfElementsInArrayThrows(dataType)
         \/ getDataTypeSizeThrows(dataType.elementDataType)
    [] dataType.type = "struct" ->
         \E i \in 1..Len(dataType.fields) :
            /\ dataType.fields[i].dataType.type # "struct self pointer"
            /\ getDataTypeSizeThrows(dataType.fields[i].dataType)
    [] OTHER -> TRUE

RECURSIVE getDataTypeSize(_), reduceFieldSizes(_, _)
reduceFieldSizes(fields, sum) ==
  IF fields = <<>> THEN sum
  ELSE reduceFieldSizes(Tail(fields),
         sum + (IF Head(fields).dataType.type = "struct self pointer"
                THEN POINTER_SIZE
                ELSE getDataTypeSize(Head(fields).dataType)))

getDataTypeSize(dataType) ==
  CASE dataType.type \in {"primary", "pointer", "struct self pointer"} ->
         getSizeOfScalarDataType(
           IF dataType.type = "pointer" \/ dataType.type = "struct self pointer"
           THEN "pointer" ELSE dataType.primaryDataType)
    [] dataType.type = "array" ->
         getNumberOfElementsInArray(dataType) * getDataTypeSize(dataType.elementDataType)
    [] dataType.type = "struct" -> reduceFieldSizes(dataType.fields, 0)
    [] dataType.type = "enum" -> primaryDataTypeSizes[ENUM_DATA_TYPE]

isScalarDataType(dataType) == dataType.type \in {"primary", "pointer", "enum"}

isFloatDataType(dataType) ==
  dataType.type = "primary" /\ isFloatType(dataType.primaryDataType)

isArithmeticDataType(dataType) == dataType.type \in {"primary", "enum"}

isVoidPointer(dataType) ==
  dataType.type = "pointer" /\ dataType.pointeeType.type = "void"

(***************************************************************************)
(* checkDataTypeCompatibility and checkStructFieldCompatibility.           *)
(***************************************************************************)
RECURSIVE checkDataTypeCompatibility(_, _, _)

checkStructFieldCompatibility_selfMismatch(a, b, ignoreQ) ==
  IF a.tag # b.tag THEN FALSE
  ELSE IF a.dataType.type = "struct self pointer" THEN FALSE
  ELSE IF b.dataType.type = "struct self pointer" THEN FALSE
  ELSE checkDataTypeCompatibility(a.dataType, b.dataType, ignoreQ)

checkStructFieldCompatibility(a, b, ignoreQ) ==
  IF a.tag # b.tag THEN FALSE
  ELSE IF a.dataType.type = "struct self pointer"
       THEN (IF b.dataType.type # "struct self pointer" THEN FALSE ELSE TRUE)
  ELSE IF b.dataType.type = "struct self pointer" THEN FALSE
  ELSE checkDataTypeCompatibility(a.dataType, b.dataType, ignoreQ)

checkDataTypeCompatibility_anyTag(a, b, ignoreQ) ==
  IF \/ a.type # b.type
     \/ (~ignoreQ /\ a.isConst /\ ~b.isConst)
     \/ (b.isConst /\ ~a.isConst)
  THEN FALSE
  ELSE CASE a.type = "primary" -> a.primaryDataType = b.primaryDataType
    [] a.type = "array" ->
         /\ evaluateCompileTimeExpression(a.numElements).value
              = evaluateCompileTimeExpression(b.numElements).value
         /\ checkDataTypeCompatibility(a.elementDataType, b.elementDataType, ignoreQ)
    [] a.type = "function" ->
         IF a.returnType.type = "void" /\ b.returnType.type # "void" THEN FALSE
         ELSE IF a.returnType.type # "void"
                 /\ (\/ b.returnType.type = "void"
                     \/ ~checkDataTypeCompatibility(a.returnType, b.returnType, ignoreQ))
         THEN FALSE
         ELSE IF Len(a.parameters) # Len(b.parameters) THEN FALSE
         ELSE \A i \in 1..Len(a.parameters) :
                 checkDataTypeCompatibility(a.parameters[i], b.parameters[i], ignoreQ)
    [] a.type = "struct" ->
         IF Len(a.fields) # Len(b.fields) THEN FALSE
         ELSE \A i \in 1..Len(a.fields) :
                 checkStructFieldCompatibility(a.fields[i], b.fields[i], ignoreQ)
    [] a.type = "pointer" ->
         IF isVoidPointer(a) /\ isVoidPointer(b) THEN TRUE
         ELSE IF isVoidPointer(a) \/ isVoidPointer(b) THEN FALSE
         ELSE checkDataTypeCompatibility(a.pointeeType, b.pointeeType, ignoreQ)
    [] a.type = "enum" -> TRUE
    [] a.type = "void" -> TRUE
    [] OTHER -> FALSE

checkDataTypeCompatibility(a, b, ignoreQ) ==
  IF \/ a.type # b.type
     \/ (~ignoreQ /\ a.isConst /\ ~b.isConst)
     \/ (b.isConst /\ ~a.isConst)
  THEN FALSE
  ELSE CASE a.type = "primary" -> a.primaryDataType = b.primaryDataType
    [] a.type = "array" ->
         /\ evaluateCompileTimeExpression(a.numElements).value
              = evaluateCompileTimeExpression(b.numElements).value
         /\ checkDataTypeCompatibility(a.elementDataType, b.elementDataType, ignoreQ)
    [] a.type = "function" ->
         IF a.returnType.type = "void" /\ b.returnType.type # "void" THEN FALSE
         ELSE IF a.returnType.type # "void"
                 /\ (\/ b.returnType.type = "void"
                     \/ ~checkDataTypeCompatibility(a.returnType, b.returnType, ignoreQ))
         THEN FALSE
         ELSE IF Len(a.parameters) # Len(b.parameters) THEN FALSE
         ELSE \A i \in 1..Len(a.parameters) :
                 checkDataTypeCompatibility(a.parameters[i], b.parameters[i], ignoreQ)
    [] a.type = "struct" ->
         IF a.tag # b.tag THEN FALSE
         ELSE IF Len(a.fields) # Len(b.fields) THEN FALSE
         ELSE \A i \in 1..Len(a.fields) :
                 checkStructFieldCompatibility(a.fields[i], b.fields[i], ignoreQ)
    [] a.type = "pointer" ->
         IF isVoidPointer(a) /\ isVoidPointer(b) THEN TRUE
         ELSE IF isVoidPointer(a) \/ isVoidPointer(b) THEN FALSE
         ELSE checkDataTypeCompatibility(a.pointeeType, b.pointeeType, ignoreQ)
    [] a.type = "enum" -> TRUE
    [] a.type = "void" -> TRUE
    [] OTHER -> FALSE

(***************************************************************************)
(* unpackDataType.  recursiveHelper threads the closure's two variables,   *)
(* memoryObjects and currOffset, as the record st.                         *)
(***************************************************************************)
RECURSIVE unpackDataTypeThrows(_)
unpackDataTypeThrows(dataType) ==
  CASE dataType.type \in {"primary", "pointer", "enum"} -> FALSE
    [] dataType.type = "array" ->
         \/ getNumberOfElementsInArrayThrows(dataType)
         \/ /\ getNumberOfElementsInArray(dataType) > 0
            /\ unpackDataTypeThrows(dataType.elementDataType)
    [] dataType.type = "struct" ->
         \E i \in 1..Len(dataType.fields) :
            IF dataType.fields[i].dataType.type = "struct self pointer"
            THEN getDataTypeSizeThrows(dataType)
            ELSE unpackDataTypeThrows(dataType.fields[i].dataType)
    [] OTHER -> TRUE

pushMemoryObject(st, scalar, size) ==
  [memoryObjects |-> Append(st.memoryObjects,
                            [dataType |-> scalar, offset |-> st.currOffset]),
   currOffset |-> st.currOffset + size]

RECURSIVE recursiveHelper(_, _), unpackArrayElements(_, _, _), unpackStructFields(_, _, _)
unpackArrayElements(dataType, numLeft, st) ==
  IF numLeft <= 0 THEN st
  ELSE unpackArrayElements(dataType, numLeft - 1,
                           recursiveHelper(dataType.elementDataType, st))

unpackStructFields(dataType, fields, st) ==
  IF fields = <<>> THEN st
  ELSE unpackStructFields(dataType, Tail(fields),
         IF Head(fields).dataType.type = "struct self pointer"
         THEN pushMemoryObject(st, "pointer", getDataTypeSize(dataType))
         ELSE recursiveHelper(Head(fields).dataType, st))

recursiveHelper(dataType, st) ==
  CASE dataType.type = "primary" ->
         pushMemoryObject(st, dataType.primaryDataType, getDataTypeSize(dataType))
    [] dataType.type = "pointer" ->
         pushMemoryObject(st, "pointer", getDataTypeSize(dataType))
    [] dataType.type = "array" ->
         unpackArrayElements(dataType, getNumberOfElementsInArray(dataType), st)
    [] dataType.type = "struct" ->
         unpackStructFields(dataType, dataType.fields, st)
    [] dataType.type = "enum" ->
         pushMemoryObject(st, ENUM_DATA_TYPE, getDataTypeSize(dataType))

Reverse(s) == [i \in 1..Len(s) |-> s[Len(s) + 1 - i]]

unpackDataType_unshift(dataType) ==
  Reverse(recursiveHelper(dataType, [memoryObjects |-> <<>>, currOffset |-> 0]).memoryObjects)

unpackDataType_dropEnum(dataType) ==
  SelectSeq(recursiveHelper(dataType, [memoryObjects |-> <<>>, currOffset |-> 0]).memoryObjects,
            LAMBDA m : m.dataType # ENUM_DATA_TYPE)

unpackDataType(dataType) ==
  recursiveHelper(dataType, [memoryObjects |-> <<>>, currOffset |-> 0]).memoryObjects

(***************************************************************************)
(* stringifyDataType.                                                      *)
(***************************************************************************)
RECURSIVE stringifyDataType(_), joinDataTypes(_)
joinDataTypes(types) ==
  IF types = <<>> THEN ""
  ELSE IF Len(types) = 1 THEN stringifyDataType(types[1])
  ELSE stringifyDataType(Head(types)) \o ", " \o joinDataTypes(Tail(types))

stringifyDataType(dataType) ==
  CASE dataType.type = "primary" ->
         (IF dataType.isConst THEN "const " ELSE "") \o dataType.primaryDataType
    [] dataType.type = "array" ->
         (IF dataType.isConst THEN "const " ELSE "") \o "array with size "
           \o ToString(evaluateCompileTimeExpression(dataType.numElements).value)
           \o " of " \o stringifyDataType(dataType.elementDataType)
    [] dataType.type = "pointer" ->
         (IF dataType.isConst THEN "const " ELSE "") \o "pointer to "
           \o stringifyDataType(dataType.pointeeType)
    [] dataType.type = "function" ->
         "function (" \o joinDataTypes(dataType.parameters) \o ") returning "
           \o stringifyDataType(dataType.returnType)
    [] dataType.type = "struct" -> "struct " \o dataType.tag
    [] dataType.type = "enum" -> "enum " \o dataType.tag
    [] dataType.type = "void" -> "void"
    [] OTHER -> ""

(***************************************************************************)
(* Expressions: an ExpressionWrapperP is its originalDataType and the      *)
(* scalar expressions exprs (exprs[0] of the source is exprs[1] here).     *)
(***************************************************************************)
ExpressionWrapperP(t, exprs) == [originalDataType |-> t, exprs |-> exprs]

\* processor/util getDataTypeOfExpression: its parameter object has the two
\* fields expression and convertArrayToPointer only
getDataTypeOfExpression(expression, convertArrayToPointer) ==
  IF convertArrayToPointer /\ expression.originalDataType.type = "array"
  THEN PointerDataType(expression.originalDataType.elementDataType, FALSE)
  ELSE expression.originalDataType

isNullPointerConstant_strictEquals(expr) ==
  expr.exprs[1].type = "IntegerConstant" /\ expr.exprs[1].value = 0 /\ FALSE

isNullPointerConstant(expr) ==
  expr.exprs[1].type = "IntegerConstant" /\ expr.exprs[1].value = 0

checkAssignabilityOfPointers(left, right) ==
  IF isVoidPointer(left) \/ isVoidPointer(right) THEN TRUE
  ELSE IF ~left.pointeeType.isConst /\ right.pointeeType.isConst THEN FALSE
  ELSE checkDataTypeCompatibility(left.pointeeType, right.pointeeType, TRUE)

checkAssignability(lvalue, expr) ==
  IF lvalue.type = "array" \/ lvalue.type = "function" \/ lvalue.type = "void"
  THEN FALSE
  ELSE LET exprDataType == getDataTypeOfExpression(expr, TRUE) IN
       IF lvalue.type = "pointer" /\ isNullPointerConstant(expr) THEN TRUE
       ELSE \/ (isArithmeticDataType(lvalue) /\ isArithmeticDataType(exprDataType))
            \/ (lvalue.type = "struct"
                /\ checkDataTypeCompatibility(lvalue, exprDataType, FALSE))
            \/ (lvalue.type = "pointer"
                /\ exprDataType.type = "pointer"
                /\ checkAssignabilityOfPointers(lvalue, exprDataType))

NoError == [threw |-> FALSE, message |-> ""]

ProcessingError(message) == [threw |-> TRUE, message |-> message]

\* what checkIntializerExpressionAssignability throws, NoError when it returns
checkIntializerExpressionAssignability(lvalue, expr) ==
  IF ~checkAssignability(lvalue, expr)
  THEN ProcessingError("incompatible types when initializing type '"
         \o stringifyDataType(lvalue) \o "' using type '"
         \o stringifyDataType(getDataTypeOfExpression(expr, TRUE)) \o "'")
  ELSE NoError

(***************************************************************************)
(* Input domains.                                                          *)
(***************************************************************************)
NoType == [type |-> "none"]

NoExpr == [originalDataType |-> NoType, exprs |-> <<>>]

NoResult == [kind |-> "none"]

NoDeclaration == [type |-> "none"]

NoFieldTag == ""

SignedInt == PrimaryDataType("signed int", FALSE)

ConstSignedInt == PrimaryDataType("signed int", TRUE)

SignedChar == PrimaryDataType("signed char", FALSE)

SignedShort == PrimaryDataType("signed short", FALSE)

DoubleType == PrimaryDataType("double", FALSE)

FieldTagPool == <<"x", "y", "z", "w", "v">>

\* the field lists of n fields whose data types are drawn from fieldTypes
FieldLists(n, fieldTypes) ==
  { [i \in 1..n |-> StructField(FieldTagPool[i], f[i])] : f \in [1..n -> fieldTypes] }

FieldListsUpTo(n, fieldTypes) == UNION { FieldLists(k, fieldTypes) : k \in 1..n }

ParamLists(n, paramTypes) == UNION { [1..k -> paramTypes] : k \in 0..n }

ListNode == StructDataType("S", <<StructField("x", SignedInt), StructField("y", StructSelfPointer)>>, FALSE)

ListNodeT == StructDataType("T", <<StructField("x", SignedInt), StructField("y", StructSelfPointer)>>, FALSE)

CompatLeaves == {SignedInt, ConstSignedInt, SignedChar}

CompatPrimaries ==
  { PrimaryDataType(p, c) : p \in {"signed char", "signed int", "double"}, c \in BOOLEAN }

CompatEnums == {EnumDataType("E", FALSE), EnumDataType("F", FALSE), EnumDataType("E", TRUE)}

CompatVoids == {VoidDataType(FALSE), VoidDataType(TRUE)}

CompatStructs ==
  { StructDataType(tag, fs, FALSE) :
      tag \in {"S", "T"}, fs \in FieldListsUpTo(MaxFields, {SignedInt, ConstSignedInt, StructSelfPointer}) }
  \cup { StructDataType("S", <<StructField("x", SignedInt)>>, TRUE),
         StructDataType("S", <<StructField("k", SignedInt)>>, FALSE),
         StructDataType("S", <<StructField("x", ListNodeT)>>, FALSE),
         StructDataType("S", <<StructField("x", PointerDataType(ConstSignedInt, FALSE))>>, FALSE),
         StructDataType("S", <<StructField("x", PointerDataType(SignedInt, FALSE))>>, FALSE) }

CompatFunctions ==
  { FunctionDataType(r, ps) :
      r \in {VoidDataType(FALSE), SignedInt, ConstSignedInt}, ps \in ParamLists(MaxParams, {SignedInt, SignedChar}) }

CompatPointers ==
  { PointerDataType(t, c) :
      t \in CompatLeaves \cup CompatVoids
            \cup { PointerDataType(SignedInt, FALSE), PointerDataType(ConstSignedInt, FALSE),
                   ListNode, ListNodeT,
                   FunctionDataType(SignedInt, <<>>), FunctionDataType(VoidDataType(FALSE), <<>>) },
      c \in BOOLEAN }

CompatArrays ==
  { ArrayDataType(t, IntegerConstant(n)) :
      t \in CompatLeaves \cup {ListNode}, n \in 1..MaxNumElements }

CompatTypes ==
  CompatPrimaries \cup CompatEnums \cup CompatVoids \cup CompatStructs
    \cup CompatFunctions \cup CompatPointers \cup CompatArrays

\* the visitor before it is called
VisitorIdle ==
  /\ scopeStack = <<>>
  /\ frames = <<>>
  /\ fn = [name |-> "", sizeOfLocals |-> 0, sizeOfParameters |-> 0, sizeOfReturn |-> 0,
           processed |-> FALSE]
  /\ declared = 0
  /\ error = ""
  /\ nodes = 0


(***************************************************************************)
(* SpecCompat: checkDataTypeCompatibility applied to a pair of data types, *)
(* in both argument orders.                                                *)
(***************************************************************************)
InitCompat ==
  /\ typA \in CompatTypes
  /\ typB \in CompatTypes
  /\ ignoreQualifiers \in BOOLEAN
  /\ exprW = NoExpr
  /\ declaration = NoDeclaration
  /\ fieldTag = NoFieldTag
  /\ phase = "input"
  /\ result = NoResult
  /\ VisitorIdle

CheckCompat ==
  /\ phase = "input"
  /\ phase' = "checkDataTypeCompatibility"
  /\ result' = [kind |-> "compat",
                ab |-> checkDataTypeCompatibility(typA, typB, ignoreQualifiers),
                ba |-> checkDataTypeCompatibility(typB, typA, ignoreQualifiers)]
  /\ UNCHANGED <<typA, typB, ignoreQualifiers, exprW, declaration, fieldTag>>
  /\ UNCHANGED visitVars

NextCompat == CheckCompat

SpecCompat == InitCompat /\ [][NextCompat]_vars

(***************************************************************************)
(* SpecLayout: getDataTypeSize and unpackDataType applied to one data type.*)
(***************************************************************************)
LayoutScalars ==
  { SignedChar, SignedShort, SignedInt, DoubleType, PrimaryDataType("float", TRUE),
    PointerDataType(SignedInt, FALSE), PointerDataType(VoidDataType(FALSE), TRUE),
    EnumDataType("E", FALSE) }

LayoutFieldTypes ==
  { SignedChar, SignedInt, DoubleType, PointerDataType(SignedChar, FALSE),
    EnumDataType("E", FALSE), StructSelfPointer }

LayoutStructs ==
  { StructDataType("S", fs, FALSE) : fs \in FieldListsUpTo(MaxFields, LayoutFieldTypes) }

LayoutArrays ==
  { ArrayDataType(t, IntegerConstant(n)) :
      t \in LayoutScalars \cup LayoutStructs, n \in 0..MaxNumElements }

\* structs and arrays nested one level further
LayoutNested ==
  { StructDataType("T", fs, FALSE) :
      fs \in FieldListsUpTo(MaxFields,
               { SignedChar, StructSelfPointer, ListNode,
                 StructDataType("S", <<StructField("x", StructSelfPointer),
                                       StructField("y", SignedChar)>>, FALSE),
                 ArrayDataType(SignedShort, IntegerConstant(2)),
                 ArrayDataType(ListNode, IntegerConstant(2)) }) }
  \cup { ArrayDataType(ArrayDataType(t, IntegerConstant(n)), IntegerConstant(m)) :
           t \in {SignedChar, ListNode}, n \in 0..MaxNumElements, m \in 0..MaxNumElements }

\* types the two utilities reject
LayoutUnsized ==
  { VoidDataType(FALSE), FunctionDataType(SignedInt, <<>>),
    ArrayDataType(SignedInt, FloatConstant(2)),
    ArrayDataType(SignedInt, [type |-> "VariableExpr", value |-> 0]),
    ArrayDataType(VoidDataType(FALSE), IntegerConstant(0)),
    StructDataType("S", <<StructField("x", ArrayDataType(SignedInt, FloatConstant(1)))>>, FALSE) }

LayoutTypes ==
  LayoutScalars \cup LayoutStructs \cup LayoutArrays \cup LayoutNested \cup LayoutUnsized

InitLayout ==
  /\ typA \in LayoutTypes
  /\ typB = NoType
  /\ ignoreQualifiers = FALSE
  /\ exprW = NoExpr
  /\ declaration = NoDeclaration
  /\ fieldTag = NoFieldTag
  /\ phase = "input"
  /\ result = NoResult
  /\ VisitorIdle

\* getDataTypeSize(typA) and unpackDataType(typA), as
\* convertFunctionDataTypeToFunctionDetails calls them on one type
SizeAndUnpack ==
  /\ phase = "input"
  /\ phase' = "unpackDataType"
  /\ result' =
       IF getDataTypeSizeThrows(typA) \/ unpackDataTypeThrows(typA)
       THEN [kind |-> "layout", threw |-> TRUE, size |-> 0, unpacked |-> <<>>]
       ELSE [kind |-> "layout", threw |-> FALSE,
             size |-> getDataTypeSize(typA), unpacked |-> unpackDataType(typA)]
  /\ UNCHANGED <<typA, typB, ignoreQualifiers, exprW, declaration, fieldTag>>
  /\ UNCHANGED visitVars

NextLayout == SizeAndUnpack

SpecLayout == InitLayout /\ [][NextLayout]_vars

(***************************************************************************)
(* Claims about compatibility (SpecCompat).                                *)
(***************************************************************************)
Compared == phase = "checkDataTypeCompatibility"

HasSelfPointerField(t) ==
  t.type = "struct"
  /\ \E i \in 1..Len(t.fields) : t.fields[i].dataType.type = "struct self pointer"

\* C1: checkDataTypeCompatibility is symmetric: for all A, B and either value of
\* ignoreQualifiers, checkDataTypeCompatibility(A, B, q) = checkDataTypeCompatibility(B, A, q).
C1_Symmetric == Compared => result.ab = result.ba

\* C2: checkDataTypeCompatibility is reflexive: checkDataTypeCompatibility(T, T) is
\* true for every data type T, with or without const (and for either value of
\* ignoreQualifiers).
C2_Reflexive == (Compared /\ typA = typB) => result.ab

C2_Witness ==
  Compared /\ typA = typB /\ HasSelfPointerField(typA) /\ ~ignoreQualifiers /\ result.ab

(***************************************************************************)
(* Claims about layout (SpecLayout).                                       *)
(***************************************************************************)
Unpacked == phase = "unpackDataType" /\ ~result.threw

RECURSIVE SumOfScalarSizes(_, _)
\* the sum of the scalar sizes of the first n entries of an unpacked list
SumOfScalarSizes(entries, n) ==
  IF n = 0 THEN 0
  ELSE SumOfScalarSizes(entries, n - 1) + getSizeOfScalarDataType(entries[n].dataType)

\* C3: size consistency: getDataTypeSize(T) equals the sum of the scalar sizes of
\* the entries returned by unpackDataType(T), for every T that has a size.
C3_SizeConsistency ==
  Unpacked => result.size = SumOfScalarSizes(result.unpacked, Len(result.unpacked))

C3_Witness ==
  /\ Unpacked
  /\ typA.type = "array"
  /\ HasSelfPointerField(typA.elementDataType)
  /\ \E i \in 1..Len(typA.elementDataType.fields) :
        typA.elementDataType.fields[i].dataType.type = "enum"
  /\ Len(result.unpacked) = 4
  /\ result.size = 16

\* C4: packed layout: the i-th entry returned by unpackDataType(T) has an offset
\* equal to the sum of the scalar sizes of the entries before it, so the last
\* entry's offset plus its size equals getDataTypeSize(T).
C4_PackedLayout ==
  Unpacked =>
    /\ \A i \in 1..Len(result.unpacked) :
          result.unpacked[i].offset = SumOfScalarSizes(result.unpacked, i - 1)
    /\ Len(result.unpacked) > 0 =>
          result.unpacked[Len(result.unpacked)].offset
            + getSizeOfScalarDataType(result.unpacked[Len(result.unpacked)].dataType)
          = result.size

\* C5: offset monotonicity: the offsets of the entries returned by unpackDataType
\* are non-decreasing in declaration order, for every struct type (and every other
\* type that unpacks).
C5_OffsetMonotonic ==
  Unpacked =>
    \A i, j \in 1..Len(result.unpacked) :
       i < j => result.unpacked[i].offset <= result.unpacked[j].offset

C5_Witness ==
  /\ Unpacked
  /\ typA.type = "struct"
  /\ Len(typA.fields) = 2
  /\ typA.fields[1].dataType.type = "struct self pointer"
  /\ Len(result.unpacked) = 2
  /\ result.unpacked[1].offset < result.unpacked[2].offset

(***************************************************************************)
(* SpecAssign: checkAssignability, checkAssignabilityOfPointers and        *)
(* checkIntializerExpressionAssignability applied to an lvalue type and an *)
(* expression.                                                             *)
(***************************************************************************)
AssignFunctions ==
  { FunctionDataType(r, ps) :
      r \in {VoidDataType(FALSE), SignedInt}, ps \in ParamLists(MaxParams, {SignedInt}) }

AssignStructs ==
  { StructDataType(tag, fs, c) :
      tag \in {"S", "T"},
      fs \in { <<StructField("x", SignedInt), StructField("y", StructSelfPointer)>>,
               <<StructField("x", SignedInt)>> },
      c \in BOOLEAN }

AssignPointees ==
  { SignedInt, ConstSignedInt, SignedChar, VoidDataType(FALSE), VoidDataType(TRUE),
    ListNode, StructDataType("S", ListNode.fields, TRUE),
    PointerDataType(SignedInt, FALSE), PointerDataType(ConstSignedInt, FALSE) }
  \cup AssignFunctions

AssignPointers == { PointerDataType(t, c) : t \in AssignPointees, c \in BOOLEAN }

AssignArithmetic ==
  { SignedInt, ConstSignedInt, DoubleType, PrimaryDataType("double", TRUE),
    EnumDataType("E", FALSE), EnumDataType("E", TRUE) }

AssignArrays ==
  { ArrayDataType(t, IntegerConstant(n)) :
      t \in {SignedInt, ConstSignedInt, VoidDataType(FALSE)}, n \in 1..MaxNumElements }

LvalueTypes ==
  AssignArithmetic \cup AssignPointers \cup AssignStructs
    \cup AssignArrays \cup AssignFunctions \cup {VoidDataType(FALSE)}

\* n scalar expressions of one kind
Scalars(kind, value, n) == [i \in 1..n |-> [type |-> kind, value |-> value]]

NumberOfPrimaries(t) == IF t.type = "struct" THEN Len(unpackDataType(t)) ELSE 1

AssignExpressions ==
  \* integer constants 0 and 1
  { ExpressionWrapperP(SignedInt, Scalars("IntegerConstant", v, 1)) : v \in {0, 1} }
  \* values loaded from memory: one load per primary
  \cup { ExpressionWrapperP(t, Scalars("MemoryLoad", 0, NumberOfPrimaries(t))) :
           t \in AssignArithmetic \cup AssignPointers \cup AssignStructs }
  \* array and function designators: an address
  \cup { ExpressionWrapperP(t, Scalars("Address", 0, 1)) :
           t \in { a \in AssignArrays : a.elementDataType.type # "void" }
                 \cup AssignFunctions }

\* the same type with the top-level const qualifier flipped
ToggleConst(t) ==
  IF t.type \in {"primary", "pointer", "struct", "enum"}
  THEN [t EXCEPT !.isConst = ~@] ELSE t

InitAssign ==
  /\ typA \in LvalueTypes
  /\ typB = NoType
  /\ ignoreQualifiers = FALSE
  /\ exprW \in AssignExpressions
  /\ declaration = NoDeclaration
  /\ fieldTag = NoFieldTag
  /\ phase = "input"
  /\ result = NoResult
  /\ VisitorIdle

CheckAssign ==
  /\ phase = "input"
  /\ phase' = "checkAssignability"
  /\ LET exprDataType == getDataTypeOfExpression(exprW, TRUE)
         bothPointers == typA.type = "pointer" /\ exprDataType.type = "pointer"
     IN result' =
          [kind |-> "assign",
           exprDataType |-> exprDataType,
           assignable |-> checkAssignability(typA, exprW),
           bothPointers |-> bothPointers,
           pointersAssignable |->
             bothPointers /\ checkAssignabilityOfPointers(typA, exprDataType),
           initializer |-> checkIntializerExpressionAssignability(typA, exprW),
           \* the same call with the lvalue's, and with the expression's,
           \* top-level const flipped
           lvalueToggled |-> checkAssignability(ToggleConst(typA), exprW),
           exprToggled |->
             checkAssignability(typA,
               [exprW EXCEPT !.originalDataType = ToggleConst(@)])]
  /\ UNCHANGED <<typA, typB, ignoreQualifiers, exprW, declaration, fieldTag>>
  /\ UNCHANGED visitVars

NextAssign == CheckAssign

SpecAssign == InitAssign /\ [][NextAssign]_vars

(***************************************************************************)
(* Claims about assignability (SpecAssign).                                *)
(***************************************************************************)
Assigned == phase = "checkAssignability"

\* C6: null-pointer assignability: for every pointee type T, checkAssignability(
\* pointer to T, e) returns true when e is an integer constant expression with
\* value 0.
C6_NullPointerAssignable ==
  (Assigned /\ typA.type = "pointer"
     /\ exprW.exprs[1].type = "IntegerConstant" /\ exprW.exprs[1].value = 0)
  => result.assignable

C6_Witness ==
  /\ Assigned
  /\ typA.type = "pointer"
  /\ typA.pointeeType.type = "struct"
  /\ typA.pointeeType.isConst
  /\ exprW.exprs[1].type = "IntegerConstant" /\ exprW.exprs[1].value = 0
  /\ result.assignable
  /\ ~result.initializer.threw

\* C7: pointer assignability respects qualifiers: for any two pointer types,
\* whenever the rvalue's pointee is const-qualified and the lvalue's pointee is
\* not, checkAssignabilityOfPointers returns false and initialization raises the
\* 'incompatible types when initializing type ...' error.
C7_PointerQualifiers ==
  (Assigned /\ result.bothPointers
     /\ result.exprDataType.pointeeType.isConst /\ ~typA.pointeeType.isConst)
  => (~result.pointersAssignable /\ result.initializer.threw)

\* C8: a top-level const qualifier does not affect assignability: for every
\* lvalue type L that is primary, pointer or struct and every expression e,
\* checkAssignability(const L, e) = checkAssignability(L, e), and the result does
\* not depend on whether the type of e is const-qualified.
C8_TopLevelConstIgnored ==
  (Assigned /\ typA.type \in {"primary", "pointer", "struct"})
  => (result.assignable = result.lvalueToggled /\ result.assignable = result.exprToggled)

\* C9: a function designator decays to a pointer to function: an expression whose
\* originalDataType is a function type F is assignable to an lvalue of type
\* pointer to a function type compatible with F.
C9_FunctionDecay ==
  (Assigned /\ exprW.originalDataType.type = "function"
     /\ typA.type = "pointer" /\ typA.pointeeType.type = "function"
     /\ checkDataTypeCompatibility(typA.pointeeType, exprW.originalDataType, FALSE))
  => result.assignable

(***************************************************************************)
(* The scope-building visitor, createScopesAndVariables of                 *)
(* src/ctowasm/src/processor/index.ts.                                     *)
(*                                                                         *)
(* A scope is created with parentScope = the top of scopeStack and pushed  *)
(* at once, and only the top is ever popped, so the parentScope of every   *)
(* scope on the stack is the scope below it: a scope is modelled without   *)
(* the parentScope field, and a walk up the parentScope chain from the top *)
(* is a walk down the stack.                                               *)
(***************************************************************************)
Last(q) == q[Len(q)]

Front(q) == SubSeq(q, 1, Len(q) - 1)

PutEntry(map, key, entry) ==
  [k \in DOMAIN map \cup {key} |-> IF k = key THEN entry ELSE map[k]]

createNewScope == [functions |-> << >>, variables |-> << >>, arrays |-> << >>]

getVariableSize(variableType) ==
  CASE variableType = "int" -> 4
    [] variableType = "char" -> 1

\* the visitor's mutable state while one visit call runs: st.scopeStack, st.fn
\* (the enclosingFunc node) and st.error (the ProcessingError thrown, if any)
Throw(st, message) == [st EXCEPT !.error = message]

checkForRedeclarationThrows(name, scope) ==
  \/ name \in DOMAIN scope.variables
  \/ name \in DOMAIN scope.functions
  \/ name \in DOMAIN scope.arrays

RedeclarationError(name) == "Redeclaration error: '" \o name \o "' redeclared"

\* getFunctionParams: the duplicate-name check and the size added to the node
getFunctionParamsThrows(parameters) ==
  \E i, j \in 1..Len(parameters) : i < j /\ parameters[i].name = parameters[j].name

\* the message of the throw at the first parameter whose name was seen before
RedeclaredParameterError(parameters) ==
  LET isRepeat(j) == \E i \in 1..(j - 1) : parameters[i].name = parameters[j].name
      first == CHOOSE j \in 1..Len(parameters) :
                 isRepeat(j) /\ \A k \in 1..(j - 1) : ~isRepeat(k)
  IN "Redeclaration of function parameter " \o parameters[first].name

RECURSIVE sizeOfParameters(_)
sizeOfParameters(parameters) ==
  IF parameters = << >> THEN 0
  ELSE getVariableSize(Head(parameters).variableType) + sizeOfParameters(Tail(parameters))

getFunctionParams(parameters) ==
  [i \in 1..Len(parameters) |->
     [name |-> parameters[i].name, type |-> parameters[i].variableType]]

checkForVariableDeclarationThrows(name, stack) ==
  \A i \in 1..Len(stack) : name \notin DOMAIN stack[i].variables

checkForArrayDeclarationThrows(arrayName, stack) ==
  \A i \in 1..Len(stack) : arrayName \notin DOMAIN stack[i].arrays

SpecialFunctions == {"print_int"}

checkForFunctionDeclarationThrows(name, stack) ==
  /\ name \notin SpecialFunctions
  /\ \A i \in 1..Len(stack) : name \notin DOMAIN stack[i].functions

\* whether a global initializer element is rejected as not constant
notConstant(element) ==
  /\ element.type = "ArithmeticExpression"
  /\ \/ element.firstExpr.type # "Integer"
     \/ \E i \in 1..Len(element.exprs) : element.exprs[i].expr.type # "Integer"

\* the messages of checkForVariableDeclaration, checkForArrayDeclaration and
\* checkForFunctionDeclaration
UndeclaredError(kind, name) ==
  "Undeclared " \o kind \o ": '" \o name \o "' undeclared before use"

NotConstantError == "Intializer element of global variable is not constant"

RECURSIVE visit(_, _, _), visitEach(_, _, _)
\* n.forEach((e) => visit(e, enclosingFunc)), stopping at the first throw
visitEach(children, enclosingFunc, st) ==
  IF children = << >> \/ st.error # "" THEN st
  ELSE visitEach(Tail(children), enclosingFunc, visit(Head(children), enclosingFunc, st))

\* visit(node, enclosingFunc) for the nodes that hold no block; enclosingFunc is
\* TRUE when the FunctionDefinition node was passed and FALSE when it was left
\* undefined
visit(node, enclosingFunc, st) ==
  LET top == Last(st.scopeStack)
      n == Len(st.scopeStack)
  IN
  IF st.error # "" THEN st
  ELSE CASE node.type = "VariableDeclaration" ->
         IF checkForRedeclarationThrows(node.name, top)
         THEN Throw(st, RedeclarationError(node.name))
         ELSE [st EXCEPT
                 !.scopeStack[n].variables =
                    PutEntry(@, node.name, [type |-> node.variableType, isParam |-> FALSE]),
                 !.fn.sizeOfLocals =
                    IF enclosingFunc THEN @ + getVariableSize(node.variableType) ELSE @]
    [] node.type = "ArrayDeclaration" ->
         IF checkForRedeclarationThrows(node.name, top)
         THEN Throw(st, RedeclarationError(node.name))
         ELSE [st EXCEPT
                 !.scopeStack[n].arrays =
                    PutEntry(@, node.name, [type |-> node.variableType, size |-> node.size]),
                 !.fn.sizeOfLocals =
                    IF enclosingFunc
                    THEN @ + getVariableSize(node.variableType) * node.size ELSE @]
    [] node.type = "Initialization" ->
         IF checkForRedeclarationThrows(node.name, top)
         THEN Throw(st, RedeclarationError(node.name))
         ELSE LET st1 == [st EXCEPT
                            !.scopeStack[n].variables =
                               PutEntry(@, node.name,
                                        [type |-> node.variableType, isParam |-> FALSE]),
                            !.fn.sizeOfLocals =
                               IF enclosingFunc
                               THEN @ + getVariableSize(node.variableType) ELSE @]
              IN IF enclosingFunc THEN visit(node.value, enclosingFunc, st1)
                 ELSE IF notConstant(node.value) THEN Throw(st1, NotConstantError)
                 ELSE st1
    [] node.type = "ArrayInitialization" ->
         IF checkForRedeclarationThrows(node.name, top)
         THEN Throw(st, RedeclarationError(node.name))
         ELSE LET st1 == [st EXCEPT
                            !.scopeStack[n].arrays =
                               PutEntry(@, node.name,
                                        [type |-> node.variableType, size |-> node.size]),
                            !.fn.sizeOfLocals =
                               IF enclosingFunc
                               THEN @ + getVariableSize(node.variableType) * node.size
                               ELSE @]
              IN IF enclosingFunc THEN visitEach(node.elements, enclosingFunc, st1)
                 ELSE IF \E i \in 1..Len(node.elements) :
                            \/ notConstant(node.elements[i])
                            \/ node.elements[i].type \notin {"ArithmeticExpression", "Integer"}
                 THEN Throw(st1, NotConstantError)
                 ELSE st1
    [] node.type = "FunctionDeclaration" ->
         IF checkForRedeclarationThrows(node.name, top)
         THEN Throw(st, RedeclarationError(node.name))
         ELSE IF getFunctionParamsThrows(node.parameters)
         THEN Throw(st, RedeclaredParameterError(node.parameters))
         ELSE [st EXCEPT
                 !.scopeStack[n].functions =
                    PutEntry(@, node.name,
                             [returnType |-> node.returnType,
                              parameters |-> getFunctionParams(node.parameters)])]
    [] node.type \in {"Assignment", "CompoundAssignment",
                      "AssignmentExpression", "CompoundAssignmentExpression"} ->
         visit(node.value, enclosingFunc, visit(node.variable, enclosingFunc, st))
    [] node.type \in {"FunctionCall", "FunctionCallStatement"} ->
         IF checkForFunctionDeclarationThrows(node.name, st.scopeStack)
         THEN Throw(st, UndeclaredError("function", node.name))
         ELSE visitEach(node.args, FALSE, st)
    [] node.type = "VariableExpr" ->
         IF checkForVariableDeclarationThrows(node.name, st.scopeStack)
         THEN Throw(st, UndeclaredError("variable", node.name))
         ELSE st
    [] node.type = "ArrayElementExpr" ->
         IF checkForArrayDeclarationThrows(node.arrayName, st.scopeStack)
         THEN Throw(st, UndeclaredError("array", node.arrayName))
         ELSE visit(node.index, FALSE, st)
    [] node.type \in {"ArithmeticExpression", "ComparisonExpression"} ->
         visitEach(node.exprs, FALSE, visit(node.firstExpr, enclosingFunc, st))
    [] node.type \in {"ArithmeticSubExpression", "ComparisonSubExpression"} ->
         visit(node.expr, enclosingFunc, st)
    [] node.type \in {"PrefixExpression", "PostfixExpression"} ->
         visit(node.variable, enclosingFunc, st)
    [] node.type = "ReturnStatement" ->
         IF node.value.type # "undefined" THEN visit(node.value, enclosingFunc, st) ELSE st
    [] node.type = "ConditionalExpression" -> visitEach(node.exprs, FALSE, st)
    [] OTHER -> st

(***************************************************************************)
(* SpecVisit: the visitor walks a program that is drawn node by node.  A   *)
(* node that holds no block is visited in one step.  A node that holds a   *)
(* block (Root, FunctionDefinition, Block, SelectStatement, the loops) is  *)
(* in progress between the step that enters it and the step that leaves    *)
(* it, and frames is the stack of the visit calls in progress.             *)
(***************************************************************************)
Names == {"x", "y"}

FunctionNames == {"f", "g"}

VariableTypes == {"int", "char"}

ArraySizes == {MaxNumElements}

Parameter(name, variableType) == [name |-> name, variableType |-> variableType]

Signature(returnType, parameters) ==
  [returnType |-> returnType, parameters |-> parameters]

Signatures ==
  { Signature("int", << >>),
    Signature("void", <<Parameter("x", "int"), Parameter("y", "char")>>),
    Signature("void", <<Parameter("x", "int"), Parameter("x", "char")>>) }

IntegerNode == [type |-> "Integer", value |-> 1]

Undefined == [type |-> "undefined"]

VariableExprNode(name) == [type |-> "VariableExpr", name |-> name]

ArrayElementExprNode(arrayName) ==
  [type |-> "ArrayElementExpr", arrayName |-> arrayName, index |-> IntegerNode]

FunctionCallNode(name, args) == [type |-> "FunctionCall", name |-> name, args |-> args]

ArithmeticExpressionNode(firstExpr, operand) ==
  [type |-> "ArithmeticExpression", firstExpr |-> firstExpr,
   exprs |-> <<[type |-> "ArithmeticSubExpression", operator |-> "+", expr |-> operand]>>]

Expressions ==
  {IntegerNode, ArrayElementExprNode("y"), FunctionCallNode("f", << >>),
   ArithmeticExpressionNode(IntegerNode, VariableExprNode("x"))}

Conditions == {IntegerNode, VariableExprNode("x")}

VariableDeclarationNodes ==
  { [type |-> "VariableDeclaration", name |-> name, variableType |-> t] :
      name \in Names, t \in VariableTypes }

ArrayDeclarationNodes ==
  { [type |-> "ArrayDeclaration", name |-> name, variableType |-> "int", size |-> size] :
      name \in Names, size \in ArraySizes }

InitializationNodes ==
  { [type |-> "Initialization", name |-> name, variableType |-> "int", value |-> value] :
      name \in Names, value \in Expressions }

ArrayInitializationNodes ==
  { [type |-> "ArrayInitialization", name |-> name, variableType |-> "int",
     size |-> size, elements |-> <<value>>] :
      name \in Names, size \in ArraySizes, value \in Expressions }

FunctionDeclarationNodes ==
  { [type |-> "FunctionDeclaration", name |-> name,
     returnType |-> sig.returnType, parameters |-> sig.parameters] :
      name \in FunctionNames, sig \in Signatures }

AssignmentNodes ==
  { [type |-> "Assignment", variable |-> VariableExprNode(name), value |-> value] :
      name \in Names, value \in Conditions }

FunctionCallStatementNodes ==
  { [type |-> "FunctionCallStatement", name |-> name, args |-> args] :
      name \in FunctionNames \cup SpecialFunctions,
      args \in {<< >>, <<VariableExprNode("x")>>} }

ReturnStatementNodes ==
  { [type |-> "ReturnStatement", value |-> value] : value \in Conditions \cup {Undefined} }

\* the clauses of a for loop: for (int x = 1; c; x++) and for (x = 1; c; x++)
ForLoopClauses ==
  { <<initialization, condition,
      [type |-> "PostfixExpression", variable |-> VariableExprNode("x")]>> :
      initialization \in
        {node \in InitializationNodes \cup AssignmentNodes :
           node.value = IntegerNode /\
           (node.type = "Initialization" => node.name = "x") /\
           (node.type = "Assignment" => node.variable.name = "x")},
      condition \in Conditions }

\* the bytes of stack a declaration node declares
DeclaredBytes(node) ==
  CASE node.type \in {"VariableDeclaration", "Initialization"} ->
         getVariableSize(node.variableType)
    [] node.type \in {"ArrayDeclaration", "ArrayInitialization"} ->
         getVariableSize(node.variableType) * node.size
    [] OTHER -> 0

\* what a declaration node declares in the scope it is written in, as pairs of
\* the kind of the symbol and its name
Declares(node) ==
  CASE node.type \in {"VariableDeclaration", "Initialization"} -> {<<"variable", node.name>>}
    [] node.type \in {"ArrayDeclaration", "ArrayInitialization"} -> {<<"array", node.name>>}
    [] node.type = "FunctionDeclaration" -> {<<"function", node.name>>}
    [] OTHER -> {}

\* a visit call in progress: the node's type, its place in its holder, whether
\* enclosingFunc was passed, and decls, the symbols that the program text has
\* declared so far in the scope this node opens (a Root, a function with its
\* body, a Block, or a ForLoop with its initialization)
Frame(kind, role, enclosingFunc, decls) ==
  [kind |-> kind, role |-> role, ef |-> enclosingFunc, decls |-> decls]

\* frames with the symbols of a node added to the scope being written
WithDeclared(fs, decls) == [fs EXCEPT ![Len(fs)].decls = @ \cup decls]

\* the visit call in progress is inside the body of a FunctionDefinition
InFunctionBody == \E i \in 1..Len(frames) : frames[i].role = "body"

Visiting(kinds) ==
  /\ error = ""
  /\ frames # << >>
  /\ Last(frames).kind \in kinds

\* a ProcessingError leaves createScopesAndVariables: its scopeStack and the
\* visit calls in progress are gone, and process returns no AST
Thrown(message) ==
  /\ error' = message
  /\ scopeStack' = << >>
  /\ frames' = << >>
  /\ fn' = [name |-> "", sizeOfLocals |-> 0, sizeOfParameters |-> 0, sizeOfReturn |-> 0,
            processed |-> FALSE]
  /\ declared' = 0

InitVisit ==
  /\ typA = NoType
  /\ typB = NoType
  /\ ignoreQualifiers = FALSE
  /\ exprW = NoExpr
  /\ declaration = NoDeclaration
  /\ fieldTag = NoFieldTag
  /\ phase = "input"
  /\ result = NoResult
  /\ VisitorIdle

\* visit(ast): the Root branch up to its loop over the children
VisitRoot ==
  /\ error = "" /\ frames = << >> /\ scopeStack = << >>
  /\ scopeStack' = <<createNewScope>>
  /\ frames' = <<Frame("Root", "root", FALSE, {})>>
  /\ UNCHANGED <<fn, declared, error, nodes>>

\* the loop over the Root's children is over, and visit(ast) returns
FinishRoot ==
  /\ Visiting({"Root"})
  /\ frames' = << >>
  /\ UNCHANGED <<scopeStack, fn, declared, error, nodes>>

\* one child of the Root or of a Block that holds no block: the whole branch of
\* visit runs
VisitChild(node) ==
  /\ Visiting({"Root", "Block"})
  /\ nodes < MaxNodes
  /\ nodes' = nodes + 1
  /\ LET st == visit(node, Last(frames).ef,
                     [scopeStack |-> scopeStack, fn |-> fn, error |-> error])
     IN IF st.error # "" THEN Thrown(st.error)
        ELSE /\ scopeStack' = st.scopeStack
             /\ fn' = st.fn
             /\ declared' = IF InFunctionBody
                            THEN declared + DeclaredBytes(node) ELSE declared
             /\ frames' = WithDeclared(frames, Declares(node))
             /\ UNCHANGED error

VisitVariableDeclaration == \E node \in VariableDeclarationNodes : VisitChild(node)

VisitArrayDeclaration == \E node \in ArrayDeclarationNodes : VisitChild(node)

VisitInitialization == \E node \in InitializationNodes : VisitChild(node)

VisitArrayInitialization == \E node \in ArrayInitializationNodes : VisitChild(node)

VisitFunctionDeclaration ==
  /\ Visiting({"Root"})
  /\ \E node \in FunctionDeclarationNodes : VisitChild(node)

VisitAssignment ==
  /\ Visiting({"Block"})
  /\ \E node \in AssignmentNodes : VisitChild(node)

VisitFunctionCallStatement ==
  /\ Visiting({"Block"})
  /\ \E node \in FunctionCallStatementNodes : VisitChild(node)

VisitReturnStatement ==
  /\ Visiting({"Block"})
  /\ \E node \in ReturnStatementNodes : VisitChild(node)

\* the FunctionDefinition branch up to the loop over the children of its body
VisitFunctionDefinitionOf(name, sig) ==
  /\ Visiting({"Root"})
  /\ nodes < MaxNodes
  /\ Len(frames) < MaxDepth
  /\ nodes' = nodes + 1
  /\   LET returnType == sig.returnType
           parameters == sig.parameters
           n == [name |-> name,
                 sizeOfLocals |-> 0,
                 sizeOfParameters |-> 0,
                 sizeOfReturn |-> IF returnType # "void"
                                  THEN getVariableSize(returnType) ELSE 0,
                 processed |-> FALSE]
           params == getFunctionParams(parameters)
       IN IF checkForRedeclarationThrows(name, Last(scopeStack))
          THEN Thrown(RedeclarationError(name))
          ELSE IF getFunctionParamsThrows(parameters)
          THEN Thrown(RedeclaredParameterError(parameters))
          ELSE /\ scopeStack' =
                    Append([scopeStack EXCEPT ![Len(scopeStack)].functions =
                              PutEntry(@, name, [returnType |-> returnType,
                                                 parameters |-> params])],
                           [createNewScope EXCEPT !.variables =
                              [k \in {params[i].name : i \in 1..Len(params)} |->
                                 [type |-> params[CHOOSE i \in 1..Len(params) :
                                                    params[i].name = k].type,
                                  isParam |-> TRUE]]])
               /\ fn' = [n EXCEPT !.sizeOfParameters = sizeOfParameters(parameters)]
               /\ frames' = Append(WithDeclared(frames, {<<"function", name>>,
                                                         <<"definition", name>>}),
                                   Frame("Block", "body", TRUE,
                                         {<<"variable", params[i].name>> :
                                            i \in 1..Len(params)}))
               /\ declared' = 0
               /\ error' = error

VisitFunctionDefinition ==
  \E name \in FunctionNames, sig \in Signatures : VisitFunctionDefinitionOf(name, sig)

\* the loop over the children of the function's body is over: the body's Block
\* branch pops nothing, and the FunctionDefinition branch ends with its
\* scopeStack.pop()
EndFunctionDefinition ==
  /\ Visiting({"Block"})
  /\ Last(frames).role = "body"
  /\ frames' = Front(frames)
  /\ scopeStack' = Front(scopeStack)
  /\ fn' = [fn EXCEPT !.processed = TRUE]
  /\ UNCHANGED <<declared, error, nodes>>

\* entering a Block whose pre is not a FunctionDefinition, after the nodes that
\* the holder of the Block visits before it
EnterBlock(before, enclosingFunc, stack, newFrames, bytes) ==
  LET st == visitEach(before, enclosingFunc,
                      [scopeStack |-> stack, fn |-> fn, error |-> error])
  IN /\ nodes < MaxNodes
     /\ Len(newFrames) <= MaxDepth
     /\ nodes' = nodes + 1
     /\ IF st.error # "" THEN Thrown(st.error)
        ELSE /\ scopeStack' = Append(st.scopeStack, createNewScope)
             /\ fn' = st.fn
             /\ frames' = newFrames
             /\ declared' = IF InFunctionBody THEN declared + bytes ELSE declared
             /\ UNCHANGED error

\* a Block that is a statement of a Block
VisitBlock ==
  /\ Visiting({"Block"})
  /\ EnterBlock(<< >>, Last(frames).ef, scopeStack,
                Append(frames, Frame("Block", "block", Last(frames).ef, {})), 0)

\* the loop over the children of a Block is over, and the Block pops its scope;
\* the ForLoop branch that visited a body returns with it, having nothing left
\* to do
EndBlock ==
  /\ Visiting({"Block"})
  /\ Last(frames).role # "body"
  /\ frames' = IF Last(frames).role = "for" THEN Front(Front(frames)) ELSE Front(frames)
  /\ scopeStack' = Front(scopeStack)
  /\ UNCHANGED <<fn, declared, error, nodes>>

\* DoWhileLoop and WhileLoop: the condition, then the body
VisitWhileLoop ==
  /\ Visiting({"Block"})
  /\ \E condition \in Conditions :
       EnterBlock(<<condition>>, Last(frames).ef, scopeStack,
                  Append(frames, Frame("Block", "while", Last(frames).ef, {})), 0)

\* ForLoop: a scope for the initialization, which no branch pops, then the
\* initialization, the condition, the update and the body
VisitForLoopOf(clauses) ==
  /\ Visiting({"Block"})
  /\ EnterBlock(clauses, Last(frames).ef,
                Append(scopeStack, createNewScope),
                frames \o <<Frame("ForLoop", "forLoop", Last(frames).ef,
                                  Declares(clauses[1])),
                            Frame("Block", "for", Last(frames).ef, {})>>,
                DeclaredBytes(clauses[1]))

VisitForLoop == \E clauses \in ForLoopClauses : VisitForLoopOf(clauses)

\* SelectStatement: the ConditionalBlock of its ifBlock, up to the loop over
\* the children of that block
VisitSelectStatement ==
  /\ Visiting({"Block"})
  /\ \E condition \in Conditions :
       EnterBlock(<<condition>>, Last(frames).ef, scopeStack,
                  frames \o <<Frame("SelectStatement", "select", Last(frames).ef, {}),
                              Frame("Block", "if", Last(frames).ef, {})>>, 0)

\* n.elseIfBlocks.forEach((block) => visit(block)): a ConditionalBlock visited
\* with no enclosingFunc
VisitElseIfBlock ==
  /\ Visiting({"SelectStatement"})
  /\ Last(frames).role \in {"select", "elseIfBlocks"}
  /\ \E condition \in Conditions :
       EnterBlock(<<condition>>, FALSE, scopeStack,
                  Append([frames EXCEPT ![Len(frames)].role = "elseIfBlocks"],
                         Frame("Block", "elseIf", FALSE, {})), 0)

\* visit(n.elseBlock, enclosingFunc)
VisitElseBlock ==
  /\ Visiting({"SelectStatement"})
  /\ Last(frames).role \in {"select", "elseIfBlocks"}
  /\ EnterBlock(<< >>, Last(frames).ef, scopeStack,
                Append([frames EXCEPT ![Len(frames)].role = "elseBlock"],
                       Frame("Block", "else", Last(frames).ef, {})), 0)

\* the SelectStatement branch returns
EndSelectStatement ==
  /\ Visiting({"SelectStatement"})
  /\ frames' = Front(frames)
  /\ UNCHANGED <<scopeStack, fn, declared, error, nodes>>

NextVisit ==
  \/ (VisitRoot /\ UNCHANGED typeVars)
  \/ (FinishRoot /\ UNCHANGED typeVars)
  \/ (VisitVariableDeclaration /\ UNCHANGED typeVars)
  \/ (VisitArrayDeclaration /\ UNCHANGED typeVars)
  \/ (VisitInitialization /\ UNCHANGED typeVars)
  \/ (VisitArrayInitialization /\ UNCHANGED typeVars)
  \/ (VisitFunctionDeclaration /\ UNCHANGED typeVars)
  \/ (VisitFunctionDefinition /\ UNCHANGED typeVars)
  \/ (EndFunctionDefinition /\ UNCHANGED typeVars)
  \/ (VisitAssignment /\ UNCHANGED typeVars)
  \/ (VisitFunctionCallStatement /\ UNCHANGED typeVars)
  \/ (VisitReturnStatement /\ UNCHANGED typeVars)
  \/ (VisitBlock /\ UNCHANGED typeVars)
  \/ (EndBlock /\ UNCHANGED typeVars)
  \/ (VisitWhileLoop /\ UNCHANGED typeVars)
  \/ (VisitForLoop /\ UNCHANGED typeVars)
  \/ (VisitSelectStatement /\ UNCHANGED typeVars)
  \/ (VisitElseIfBlock /\ UNCHANGED typeVars)
  \/ (VisitElseBlock /\ UNCHANGED typeVars)
  \/ (EndSelectStatement /\ UNCHANGED typeVars)

SpecVisit == InitVisit /\ [][NextVisit]_vars

(***************************************************************************)
(* Claims about the visitor                                                *)
(***************************************************************************)
\* a FunctionDefinition was visited to its end without a throw
FunctionProcessed == error = "" /\ fn.processed

\* C10: once a function definition has been processed, its sizeOfLocals is the
\* sum of the sizes of every variable and array declared anywhere in its body:
\* in nested blocks, loop bodies, for-loop initializers, if, else-if and else
\* blocks, and after a return statement.
C10_SizeOfLocals == FunctionProcessed => fn.sizeOfLocals = declared

\* the names that the program text has declared so far in the scope being
\* written
DeclaredNames(frame) == {d[2] : d \in frame.decls}

DeclarationNodes ==
  VariableDeclarationNodes \cup ArrayDeclarationNodes \cup InitializationNodes
    \cup ArrayInitializationNodes \cup FunctionDeclarationNodes

\* C11: declaring a name (variable, array or function) that is already declared
\* in the same scope raises the redeclaration error, and declaring a variable or
\* array whose name is not yet declared in the scope being written, whatever the
\* enclosing scopes hold, is accepted.
C11_Redeclaration ==
  [][ /\ \A node \in DeclarationNodes :
           VisitChild(node) =>
             /\ node.name \in DeclaredNames(Last(frames)) =>
                  error' = RedeclarationError(node.name)
             /\ ( /\ node.type \in {"VariableDeclaration", "ArrayDeclaration"}
                  /\ node.name \notin DeclaredNames(Last(frames)) ) =>
                  error' = ""
      /\ \A name \in FunctionNames, sig \in Signatures :
           VisitFunctionDefinitionOf(name, sig) =>
             ( name \in DeclaredNames(Last(frames)) =>
                 error' = RedeclarationError(name) )
    ]_vars

FunctionDeclarationNode(name, sig) ==
  [type |-> "FunctionDeclaration", name |-> name,
   returnType |-> sig.returnType, parameters |-> sig.parameters]

\* the scope being written holds a prototype of the function with this
\* signature, and no definition of it
PrototypeOnly(name, sig) ==
  /\ Visiting({"Root"})
  /\ <<"function", name>> \in Last(frames).decls
  /\ <<"definition", name>> \notin Last(frames).decls
  /\ name \in DOMAIN scopeStack[1].functions
  /\ scopeStack[1].functions[name] =
       [returnType |-> sig.returnType, parameters |-> getFunctionParams(sig.parameters)]

\* C12: a function prototype followed in the same scope by a declaration or a
\* definition of the same name with the same return type and the same parameter
\* types is accepted without error.
C12_CompatibleRedeclaration ==
  [][ \A name \in FunctionNames, sig \in Signatures :
        ( /\ PrototypeOnly(name, sig)
          /\ \/ VisitChild(FunctionDeclarationNode(name, sig))
             \/ VisitFunctionDefinitionOf(name, sig) ) =>
          error' = ""
    ]_vars

RECURSIVE References(_), ReferencesOfEach(_)
\* the symbols that the expressions of a node refer to, as pairs of kind and
\* name
References(node) ==
  CASE node.type = "VariableExpr" -> {<<"variable", node.name>>}
    [] node.type = "ArrayElementExpr" ->
         {<<"array", node.arrayName>>} \cup References(node.index)
    [] node.type \in {"FunctionCall", "FunctionCallStatement"} ->
         {<<"function", node.name>>} \cup ReferencesOfEach(node.args)
    [] node.type = "ArithmeticExpression" ->
         References(node.firstExpr) \cup ReferencesOfEach(node.exprs)
    [] node.type = "ArithmeticSubExpression" -> References(node.expr)
    [] node.type \in {"Assignment", "PostfixExpression"} ->
         References(node.variable) \cup
           (IF node.type = "Assignment" THEN References(node.value) ELSE {})
    [] node.type \in {"ReturnStatement", "Initialization"} -> References(node.value)
    [] node.type = "ArrayInitialization" -> ReferencesOfEach(node.elements)
    [] OTHER -> {}

ReferencesOfEach(children) ==
  IF children = << >> THEN {}
  ELSE References(Head(children)) \cup ReferencesOfEach(Tail(children))

\* a declaration of the symbol was written earlier in the scope being written
\* or in one of the scopes that enclose it, or it is a special function
Visible(symbol) ==
  \/ \E i \in 1..Len(frames) : symbol \in frames[i].decls
  \/ symbol[1] = "function" /\ symbol[2] \in SpecialFunctions

UndeclaredErrors ==
  { UndeclaredError(kind, name) :
      kind \in {"variable", "array", "function"},
      name \in Names \cup FunctionNames \cup SpecialFunctions }

\* C13: a statement that refers to variables, arrays or functions (an
\* assignment, a call with its arguments, a return with its value) is processed
\* without error if and only if every symbol it refers to was declared earlier
\* in the current scope or in an enclosing one (or is a special function), and
\* otherwise processing stops with an undeclared error.
C13_UndeclaredUse ==
  [][ \A node \in AssignmentNodes \cup FunctionCallStatementNodes
                    \cup ReturnStatementNodes :
        VisitChild(node) =>
          /\ (\A symbol \in References(node) : Visible(symbol)) <=> error' = ""
          /\ error' # "" => error' \in UndeclaredErrors
    ]_vars

(***************************************************************************)
(* Initializers of local declarations: runInitializerChecks and            *)
(* unpackLocalVariableInitializerAccordingToDataType of                    *)
(* src/unnamed/part_002.                                                   *)
(*                                                                         *)
(* The closure variables of the unpacker (memoryStoreStatements,           *)
(* currOffset, structBeingFilled), the ProcessingError in flight and the   *)
(* value that helper returns travel in one record st: stores, currOffset,  *)
(* structBeingFilled, error ("" while nothing is thrown), offset, and      *)
(* calls, the expressions handed to processExpression in order.  Index i   *)
(* of a source array is index i + 1 here.                                  *)
(***************************************************************************)
InitializerSingle(value) == [type |-> "InitializerSingle", value |-> value]

InitializerList(values) == [type |-> "InitializerList", values |-> values]

\* an expression of an initializer: the node's type and value, a label that
\* tells the written expressions apart, and the ExpressionWrapperP that
\* processExpression returns for it
Expression(type, value, id, wrapper) ==
  [type |-> type, value |-> value, id |-> id, wrapper |-> wrapper]

processExpression(expression) == expression.wrapper

POINTER_TYPE == "unsigned int"

MemoryStore(offset, value, dataType) ==
  [type |-> "MemoryStore", offset |-> offset, value |-> value, dataType |-> dataType]

ExcessElementsError == "excess elements in initializer"

\* reading a field of initializer.values[offset] when the list has no such
\* element
TypeError == "TypeError: Cannot read properties of undefined (reading 'type')"

\* what runInitializerChecks throws, NoError when it returns
runInitializerChecks(dataType, initializer) ==
  IF isScalarDataType(dataType)
  THEN IF initializer.type = "InitializerList" /\ Len(initializer.values) > 1
       THEN ProcessingError("excess elements in scalar intializer")
       ELSE NoError
  ELSE IF dataType.type = "function"
  THEN ProcessingError("a function cannot be initialized like a variable")
  ELSE IF dataType.type = "array" /\ initializer.type = "InitializerSingle"
  THEN ProcessingError("invalid intializer for aggregate type")
  ELSE NoError

createStructSelfPointerDataType(struct) == PointerDataType(struct, FALSE)

scalarDataTypeOf(dataType) ==
  IF dataType.type \in {"pointer", "struct self pointer"} THEN "pointer"
  ELSE IF dataType.type = "enum" THEN ENUM_DATA_TYPE
  ELSE dataType.primaryDataType

zeroExpression(dataType) ==
  IF dataType.type # "struct self pointer" /\ isFloatDataType(dataType)
  THEN [type |-> "FloatConstant", value |-> 0, dataType |-> dataType.primaryDataType]
  ELSE [type |-> "IntegerConstant", value |-> 0,
        dataType |-> IF dataType.type \in {"pointer", "struct self pointer"}
                     THEN POINTER_TYPE
                     ELSE IF dataType.type = "enum" THEN ENUM_DATA_TYPE
                     ELSE dataType.primaryDataType]

\* memoryStoreStatements.push({...}); currOffset += size
pushMemoryStore(st, value, dataType, size) ==
  [st EXCEPT !.stores = Append(@, MemoryStore(st.currOffset, value, dataType)),
             !.currOffset = @ + size]

\* exprs[i] of the source, undefined past the end of the array
exprAt(exprs, i) == IF i <= Len(exprs) THEN exprs[i] ELSE Undefined

\* a scalar filled from an expression: processExpression, the assignability
\* check, one store
storeScalar(dataType, expression, st) ==
  LET processedExpr == processExpression(expression)
      st1 == [st EXCEPT !.calls = Append(@, expression.id)]
      check == checkIntializerExpressionAssignability(
                 IF dataType.type = "struct self pointer"
                 THEN createStructSelfPointerDataType(st.structBeingFilled)
                 ELSE dataType,
                 processedExpr)
  IN IF check.threw THEN [st1 EXCEPT !.error = check.message]
     ELSE pushMemoryStore(st1, exprAt(processedExpr.exprs, 1),
                          scalarDataTypeOf(dataType), getDataTypeSize(dataType))

storeZero(dataType, st) ==
  pushMemoryStore(st, zeroExpression(dataType), scalarDataTypeOf(dataType),
                  getDataTypeSize(dataType))

RECURSIVE storeUnpacked(_, _, _, _)
\* the loop over unpackDataType(dataType) that stores a struct expression
storeUnpacked(unpackedStruct, exprs, i, st) ==
  IF i > Len(unpackedStruct) THEN st
  ELSE storeUnpacked(unpackedStruct, exprs, i + 1,
         pushMemoryStore(st, exprAt(exprs, i), unpackedStruct[i].dataType,
                         getSizeOfScalarDataType(unpackedStruct[i].dataType)))

\* a struct filled from one expression, after processExpression
storeStruct(dataType, processedExpr, st) ==
  LET check == checkIntializerExpressionAssignability(dataType, processedExpr)
  IN IF check.threw THEN [st EXCEPT !.error = check.message]
     ELSE storeUnpacked(unpackDataType(dataType), processedExpr.exprs, 1, st)

RECURSIVE unwrapInitializer(_)
\* the while loop that unpacks nested lists until it hits a single
unwrapInitializer(firstInitializer) ==
  IF firstInitializer.type = "InitializerList"
  THEN IF Len(firstInitializer.values) = 0 THEN [kind |-> "empty"]
       ELSE IF Len(firstInitializer.values) > 1 THEN [kind |-> "excess"]
       ELSE unwrapInitializer(firstInitializer.values[1])
  ELSE [kind |-> "single", value |-> firstInitializer.value]

RECURSIVE helper(_, _, _, _), helperWithExcessInitializerCheck(_, _, _),
          helperArrayElements(_, _, _, _), helperStructFields(_, _, _)
\* helperWithExcessInitializerCheck(dataType, initializer.values[offset++])
\* as called from helper, whose own offset moves by one
helperOnSubList(dataType, initializer, offset, st) ==
  [helperWithExcessInitializerCheck(dataType, initializer.values[offset + 1], st)
     EXCEPT !.offset = offset + 1]

\* one turn of the loop over the elements of an array
helperArrayElement(elementDataType, initializer, st) ==
  LET offset == st.offset
      values == initializer.values
      atSingle == offset < Len(values) /\ values[offset + 1].type = "InitializerSingle"
      sameLevel == offset >= Len(values) \/ values[offset + 1].type = "InitializerSingle"
  IN CASE elementDataType.type \in {"pointer", "primary"} ->
            helper(elementDataType, initializer, offset, st)
       [] elementDataType.type = "struct" ->
            IF atSingle
            THEN LET processedExpr == processExpression(values[offset + 1].value)
                     st1 == [st EXCEPT !.calls = Append(@, values[offset + 1].value.id)]
                 IN IF processedExpr.originalDataType.type = "struct"
                    THEN [storeStruct(elementDataType, processedExpr, st1)
                            EXCEPT !.offset = offset + 1]
                    ELSE helper(elementDataType, initializer, offset, st1)
            ELSE IF sameLevel THEN helper(elementDataType, initializer, offset, st)
            ELSE helperOnSubList(elementDataType, initializer, offset, st)
       [] elementDataType.type = "array" ->
            IF sameLevel THEN helper(elementDataType, initializer, offset, st)
            ELSE helperOnSubList(elementDataType, initializer, offset, st)
       [] elementDataType.type = "function" ->
            [st EXCEPT !.error = "cannot have array of functions"]
       [] OTHER -> st

helperArrayElements(elementDataType, initializer, numLeft, st) ==
  IF numLeft <= 0 \/ st.error # "" THEN st
  ELSE helperArrayElements(elementDataType, initializer, numLeft - 1,
                           helperArrayElement(elementDataType, initializer, st))

helperStructFields(fields, initializer, st) ==
  IF fields = << >> \/ st.error # "" THEN st
  ELSE helperStructFields(Tail(fields), initializer,
         IF st.offset >= Len(initializer.values)
         THEN [st EXCEPT !.error = TypeError]
         ELSE IF initializer.values[st.offset + 1].type = "InitializerSingle"
         THEN helper(Head(fields).dataType, initializer, st.offset, st)
         ELSE helperOnSubList(Head(fields).dataType, initializer, st.offset, st))

\* helper(dataType, initializer, offset): st.offset of the result is the value
\* returned
helper(dataType, initializer, offset, st) ==
  IF st.error # "" THEN st
  ELSE CASE dataType.type \in {"primary", "pointer", "enum", "struct self pointer"} ->
         IF initializer.type = "InitializerSingle"
         THEN [storeScalar(dataType, initializer.value, st) EXCEPT !.offset = offset]
         ELSE IF offset >= Len(initializer.values)
         THEN [storeZero(dataType, st) EXCEPT !.offset = offset]
         ELSE LET first == unwrapInitializer(initializer.values[offset + 1])
              IN IF first.kind = "empty"
                 THEN [storeZero(dataType, st) EXCEPT !.offset = offset + 1]
                 ELSE IF first.kind = "excess"
                 THEN [st EXCEPT !.error = ExcessElementsError]
                 ELSE [storeScalar(dataType, first.value, st) EXCEPT !.offset = offset + 1]
    [] dataType.type = "array" ->
         IF initializer.type = "InitializerSingle"
         THEN [st EXCEPT !.error = "invalid initializer for aggregate type"]
         ELSE helperArrayElements(dataType.elementDataType, initializer,
                                  evaluateCompileTimeExpression(dataType.numElements).value,
                                  [st EXCEPT !.offset = offset])
    [] dataType.type = "struct" ->
         IF initializer.type = "InitializerSingle"
         THEN [storeStruct(dataType, processExpression(initializer.value),
                           [st EXCEPT !.calls = Append(@, initializer.value.id)])
                 EXCEPT !.offset = offset]
         ELSE helperStructFields(dataType.fields, initializer,
                                 [st EXCEPT !.structBeingFilled = dataType,
                                            !.offset = offset])
    [] OTHER -> [st EXCEPT !.offset = offset]

helperWithExcessInitializerCheck(dataType, initializer, st) ==
  LET r == helper(dataType, initializer, 0, st)
  IN IF /\ r.error = ""
        /\ initializer.type = "InitializerList"
        /\ r.offset < Len(initializer.values)
     THEN [r EXCEPT !.error = ExcessElementsError]
     ELSE r

\* unpackLocalVariableInitializerAccordingToDataType: threw and message tell
\* the error that left the function, stores is the array returned
unpackLocalVariableInitializerAccordingToDataType(variableSymbolEntry, initializer) ==
  LET check == runInitializerChecks(variableSymbolEntry.dataType, initializer)
      r == helperWithExcessInitializerCheck(
             variableSymbolEntry.dataType, initializer,
             [stores |-> << >>, currOffset |-> variableSymbolEntry.offset,
              structBeingFilled |-> NoType, error |-> "", offset |-> 0, calls |-> << >>])
  IN IF check.threw
     THEN [threw |-> TRUE, message |-> check.message, stores |-> << >>, calls |-> << >>]
     ELSE IF r.error # ""
     THEN [threw |-> TRUE, message |-> r.error, stores |-> << >>, calls |-> r.calls]
     ELSE [threw |-> FALSE, message |-> "", stores |-> r.stores, calls |-> r.calls]

(***************************************************************************)
(* Initializers of data segment variables:                                 *)
(* unpackDataSegmentInitializerAccordingToDataType of src/unnamed/part_002.*)
(* The byte string is the sequence of its bytes; st carries byteStr, the   *)
(* error in flight and the offset that helper returns.                     *)
(***************************************************************************)
NotCompileTimeConstantError == "expression is not a compile-time constant"

RECURSIVE littleEndian(_, _)
\* the size lowest bytes of value in two's complement
littleEndian(value, size) ==
  IF size = 0 THEN << >> ELSE <<value % 256>> \o littleEndian(value \div 256, size - 1)

\* the bytes of an integer constant stored as scalarDataType, lowest byte first
convertConstantToByteStr(constant, scalarDataType) ==
  littleEndian(constant.value, getSizeOfScalarDataType(scalarDataType))

getZeroInializerByteStrForDataType(dataType) ==
  [i \in 1..getDataTypeSize(dataType) |-> 0]

dataSegmentScalarDataTypeOf(dataType) ==
  IF dataType.type = "pointer" THEN "pointer"
  ELSE IF dataType.type = "enum" THEN ENUM_DATA_TYPE
  ELSE dataType.primaryDataType

appendZero(dataType, st) ==
  [st EXCEPT !.byteStr = @ \o getZeroInializerByteStrForDataType(dataType)]

\* evaluateCompileTimeExpression(expression) and the bytes of its constant;
\* message is the error thrown when the expression does not fold
appendConstant(dataType, expression, message, st) ==
  IF evaluateCompileTimeExpressionThrows(expression)
  THEN [st EXCEPT !.error = message]
  ELSE [st EXCEPT !.byteStr = @ \o convertConstantToByteStr(
                                     evaluateCompileTimeExpression(expression),
                                     dataSegmentScalarDataTypeOf(dataType))]

RECURSIVE firstSingle(_)
\* the while loop of the data segment helper: no check on the length of the
\* lists it unwraps
firstSingle(firstInitializer) ==
  IF firstInitializer.type = "InitializerList"
  THEN IF Len(firstInitializer.values) = 0 THEN [kind |-> "empty"]
       ELSE firstSingle(firstInitializer.values[1])
  ELSE [kind |-> "single", value |-> firstInitializer.value]

RECURSIVE dataSegmentHelper(_, _, _, _), dataSegmentMembers(_, _, _, _)
\* one turn of the loop over the elements of an array or the fields of a
\* struct; thrown is what a member of function type throws
dataSegmentMember(memberDataType, initializer, thrown, st) ==
  LET offset == st.offset
      values == initializer.values
  IN CASE memberDataType.type \in {"pointer", "primary"} ->
            dataSegmentHelper(memberDataType, initializer, offset, st)
       [] memberDataType.type \in {"array", "struct"} ->
            IF offset >= Len(values) \/ values[offset + 1].type = "InitializerSingle"
            THEN dataSegmentHelper(memberDataType, initializer, offset, st)
            ELSE [dataSegmentHelper(memberDataType, values[offset + 1], 0, st)
                    EXCEPT !.offset = offset + 1]
       [] memberDataType.type = "function" -> [st EXCEPT !.error = thrown]
       [] OTHER -> st

dataSegmentMembers(memberDataTypes, initializer, thrown, st) ==
  IF memberDataTypes = << >> \/ st.error # "" THEN st
  ELSE dataSegmentMembers(Tail(memberDataTypes), initializer, thrown,
                          dataSegmentMember(Head(memberDataTypes), initializer, thrown, st))

dataSegmentHelper(dataType, initializer, offset, st) ==
  IF st.error # "" THEN st
  ELSE CASE dataType.type \in {"primary", "pointer", "enum"} ->
         IF initializer.type = "InitializerSingle"
         THEN [appendConstant(dataType, initializer.value,
                              "initializer element is not compile-time constant", st)
                 EXCEPT !.offset = offset]
         ELSE IF offset >= Len(initializer.values)
         THEN [appendZero(dataType, st) EXCEPT !.offset = offset]
         ELSE LET first == firstSingle(initializer.values[offset + 1])
              IN IF first.kind = "empty"
                 THEN [appendZero(dataType, st) EXCEPT !.offset = offset + 1]
                 ELSE [appendConstant(dataType, first.value,
                                      NotCompileTimeConstantError, st)
                         EXCEPT !.offset = offset + 1]
    [] dataType.type = "array" ->
         IF initializer.type = "InitializerSingle"
         THEN [st EXCEPT !.error = "invalid initializer for aggregate type"]
         ELSE dataSegmentMembers(
                [i \in 1..evaluateCompileTimeExpression(dataType.numElements).value |->
                   dataType.elementDataType],
                initializer, "cannot have array of functions",
                [st EXCEPT !.offset = offset])
    [] dataType.type = "struct" ->
         IF initializer.type = "InitializerSingle"
         THEN [st EXCEPT !.error = "invalid initializer for aggregate type"]
         ELSE dataSegmentMembers(
                [i \in 1..Len(dataType.fields) |-> dataType.fields[i].dataType],
                initializer, "function is not valid field of struct",
                [st EXCEPT !.offset = offset])
    [] dataType.type = "function" ->
         [st EXCEPT !.error = "cannot initialize function type"]
    [] OTHER -> [st EXCEPT !.offset = offset]

\* the null initializer of the source is Undefined here
unpackDataSegmentInitializerAccordingToDataType(dataType, initalizer) ==
  IF initalizer = Undefined
  THEN IF getDataTypeSizeThrows(dataType)
       THEN [threw |-> TRUE, message |-> "getDataTypeSize", byteStr |-> << >>]
       ELSE [threw |-> FALSE, message |-> "",
             byteStr |-> getZeroInializerByteStrForDataType(dataType)]
  ELSE LET r == dataSegmentHelper(dataType, initalizer, 0,
                                  [byteStr |-> << >>, error |-> "", offset |-> 0])
       IN IF r.error # ""
          THEN [threw |-> TRUE, message |-> r.error, byteStr |-> << >>]
          ELSE [threw |-> FALSE, message |-> "", byteStr |-> r.byteStr]

(***************************************************************************)
(* processLocalDeclaration and processDataSegmentVariableDeclaration of    *)
(* src/unnamed/part_002, on a Declaration node and a fresh symbol table.   *)
(***************************************************************************)
Declaration(name, dataType, storageClass, initializer) ==
  [type |-> "Declaration", name |-> name, dataType |-> dataType,
   storageClass |-> storageClass, initializer |-> initializer]

\* symbolTable.addEntry in the scope of a function body: the entry of a
\* function, of a static variable, or of a local, which allocateLocal places
\* below the frame
addLocalEntry(node) ==
  IF node.dataType.type = "function"
  THEN [type |-> "function", dataType |-> node.dataType]
  ELSE IF node.storageClass = "static"
  THEN [type |-> "dataSegmentVariable", dataType |-> node.dataType, offset |-> 0]
  ELSE [type |-> "localVariable", dataType |-> node.dataType,
        offset |-> 0 - getDataTypeSize(node.dataType)]

\* symbolTable.addEntry in the root scope
addGlobalEntry(node) ==
  IF node.dataType.type = "function"
  THEN [type |-> "function", dataType |-> node.dataType]
  ELSE [type |-> "dataSegmentVariable", dataType |-> node.dataType, offset |-> 0]

\* an EnumDeclaration node: enum { A, B };
EnumDeclaration(enumerators) == [type |-> "EnumDeclaration", enumerators |-> enumerators]

\* the declaration as processLocalDeclaration handles it when the early return
\* for function and static entries comes after the update of sizeOfLocals
processLocalDeclaration_countsEveryEntry(node) ==
  IF node.type = "Declaration"
  THEN [threw |-> FALSE, message |-> "", statements |-> << >>,
        sizeOfLocals |-> IF getDataTypeSizeThrows(node.dataType) THEN 1
                         ELSE getDataTypeSize(node.dataType)]
  ELSE [threw |-> FALSE, message |-> "", statements |-> << >>, sizeOfLocals |-> 0]

\* processLocalDeclaration with an enclosingFunc whose sizeOfLocals is 0:
\* the error thrown, the statements returned and sizeOfLocals afterwards
processLocalDeclaration(node) ==
  IF node.type = "Declaration"
  THEN LET symbolEntry == addLocalEntry(node)
           unpacked == unpackLocalVariableInitializerAccordingToDataType(symbolEntry,
                                                                         node.initializer)
       IN IF symbolEntry.type \in {"function", "dataSegmentVariable"}
          THEN [threw |-> FALSE, message |-> "", statements |-> << >>, sizeOfLocals |-> 0]
          ELSE IF node.initializer # Undefined
          THEN [threw |-> unpacked.threw, message |-> unpacked.message,
                statements |-> unpacked.stores,
                sizeOfLocals |-> getDataTypeSize(node.dataType)]
          ELSE [threw |-> FALSE, message |-> "", statements |-> << >>,
                sizeOfLocals |-> getDataTypeSize(node.dataType)]
  \* processEnumDeclaration(declaration, symbolTable); return []
  ELSE [threw |-> FALSE, message |-> "", statements |-> << >>, sizeOfLocals |-> 0]

processDataSegmentVariableDeclaration(node) ==
  LET symbolEntry == addGlobalEntry(node)
  IN IF node.dataType.type = "function" /\ node.initializer # Undefined
     THEN ProcessingError("function " \o node.name \o " is initialized like a variable")
     ELSE IF symbolEntry.type = "localVariable"
     THEN ProcessingError(
            "processDataSegmentVariableDeclaration: symbol entry has type 'localVariable'")
     ELSE NoError

(***************************************************************************)
(* SpecDeclaration: one declaration, processed as a local and as a data    *)
(* segment declaration, and its initializer unpacked by both unpackers.    *)
(***************************************************************************)
Zero ==
  Expression("IntegerConstant", 0, "0",
             ExpressionWrapperP(SignedInt, Scalars("IntegerConstant", 0, 1)))

\* int i; used as an expression
IntVariable ==
  Expression("VariableExpr", 0, "i",
             ExpressionWrapperP(SignedInt, Scalars("MemoryLoad", 0, 1)))

Pair ==
  StructDataType("P", <<StructField("x", SignedInt), StructField("y", SignedChar)>>, FALSE)

\* struct P p; used as an expression
PairVariable ==
  Expression("VariableExpr", 0, "p", ExpressionWrapperP(Pair, Scalars("MemoryLoad", 0, 2)))

Outer ==
  StructDataType("O", <<StructField("p", Pair), StructField("z", SignedInt)>>, FALSE)

IntFunction == FunctionDataType(SignedInt, << >>)

DeclaredScalars ==
  { SignedInt, SignedChar, PointerDataType(SignedInt, FALSE), EnumDataType("E", FALSE) }

DeclaredAggregates ==
  { Pair, ListNode, Outer,
    ArrayDataType(SignedInt, IntegerConstant(MaxNumElements)),
    ArrayDataType(EnumDataType("E", FALSE), IntegerConstant(MaxNumElements)),
    ArrayDataType(Pair, IntegerConstant(MaxNumElements)),
    ArrayDataType(ArrayDataType(SignedInt, IntegerConstant(MaxNumElements)),
                  IntegerConstant(MaxNumElements)) }

DeclaredTypes == DeclaredScalars \cup DeclaredAggregates \cup {IntFunction}

\* the brace lists of at most n single expressions
FlatLists(n, expressions) ==
  { InitializerList(values) :
      values \in UNION { [1..k -> {InitializerSingle(e) : e \in expressions}] : k \in 0..n } }

SubLists ==
  FlatLists(MaxSubValues, {Zero, IntVariable})
    \cup { InitializerList(<<InitializerList(<<InitializerSingle(Zero)>>)>>) }

Initializers ==
  \* = e
  { InitializerSingle(e) : e \in {Zero, IntVariable, PairVariable} }
  \* = { e, ... }
  \cup FlatLists(MaxValues, {Zero, IntVariable, PairVariable})
  \* = { { ... }, ... }
  \cup { InitializerList(values) :
           values \in UNION { [1..k -> SubLists] : k \in 1..MaxNumElements } }
  \* = { e, { ... } } and = { { ... }, e }
  \cup { InitializerList(<<InitializerSingle(e), sub>>) :
           e \in {Zero, PairVariable}, sub \in SubLists }
  \cup { InitializerList(<<sub, InitializerSingle(e)>>) :
           e \in {Zero, PairVariable}, sub \in SubLists }

\* struct N { struct P p; struct N *next; }
Nested ==
  StructDataType("N", <<StructField("p", Pair), StructField("next", StructSelfPointer)>>, FALSE)

\* struct L { struct L *next; int x; }
SelfPointerFirst ==
  StructDataType("L", <<StructField("next", StructSelfPointer), StructField("x", SignedInt)>>,
                 FALSE)

\* a variable of type pointer to t, used as an expression
PointerVariable(t) ==
  Expression("VariableExpr", 0, "q",
             ExpressionWrapperP(PointerDataType(t, FALSE), Scalars("MemoryLoad", 0, 1)))

PointerVariables == { PointerVariable(t) : t \in {ListNode, Nested, Pair} }

\* the initializers of the fields before the last one, all 0: without inner
\* braces, and with braces around each field of struct type
ZeroFronts(dataType) ==
  { [i \in 1..(NumberOfPrimaries(dataType) - 1) |-> InitializerSingle(Zero)],
    [i \in 1..(Len(dataType.fields) - 1) |->
       IF dataType.fields[i].dataType.type = "struct"
       THEN InitializerList([k \in 1..NumberOfPrimaries(dataType.fields[i].dataType) |->
                               InitializerSingle(Zero)])
       ELSE InitializerSingle(Zero)] }

\* structs whose last field is a struct self pointer, that field initialized
\* with a pointer
SelfPointerDeclarations ==
  { Declaration("v", dataType, "auto",
                InitializerList(Append(front, InitializerSingle(q)))) :
      dataType \in {ListNode, Nested}, q \in PointerVariables,
      front \in ZeroFronts(Nested) \cup ZeroFronts(ListNode) }
  \* struct L v = { q, 0 } with the self pointer as the first field
  \cup { Declaration("v", SelfPointerFirst, "auto",
                      InitializerList(<<InitializerSingle(PointerVariable(t)),
                                        InitializerSingle(Zero)>>)) :
           t \in {SelfPointerFirst, Pair} }

Declarations ==
  { Declaration(IF dataType.type = "function" THEN "f" ELSE "v", dataType, "auto", initializer) :
      dataType \in DeclaredTypes, initializer \in Initializers \cup {Undefined} }
  \cup { Declaration("v", dataType, "static", Undefined) : dataType \in DeclaredScalars }
  \cup SelfPointerDeclarations
  \cup { EnumDeclaration(<<"A", "B">>) }

InitDeclaration ==
  /\ typA = NoType
  /\ typB = NoType
  /\ ignoreQualifiers = FALSE
  /\ exprW = NoExpr
  /\ declaration \in Declarations
  /\ fieldTag = NoFieldTag
  /\ phase = "input"
  /\ result = NoResult
  /\ VisitorIdle

DeclarationStep(name, value) ==
  /\ phase = "input"
  /\ phase' = name
  /\ result' = value
  /\ UNCHANGED <<typA, typB, ignoreQualifiers, exprW, declaration, fieldTag>>
  /\ UNCHANGED visitVars

ProcessLocalDeclaration ==
  DeclarationStep("processLocalDeclaration", processLocalDeclaration(declaration))

\* processGlobalScopeDeclaration hands it the nodes of type Declaration
ProcessDataSegmentVariableDeclaration ==
  /\ declaration.type = "Declaration"
  /\ DeclarationStep("processDataSegmentVariableDeclaration",
                  processDataSegmentVariableDeclaration(declaration))

\* the local unpacker on the entry of a variable of the declared type at
\* offset 0
UnpackLocalVariableInitializer ==
  /\ declaration.type = "Declaration"
  /\ declaration.initializer # Undefined
  /\ DeclarationStep("unpackLocalVariableInitializerAccordingToDataType",
       unpackLocalVariableInitializerAccordingToDataType(
         [type |-> "localVariable", dataType |-> declaration.dataType, offset |-> 0],
         declaration.initializer))

UnpackDataSegmentInitializer ==
  /\ declaration.type = "Declaration"
  /\ DeclarationStep("unpackDataSegmentInitializerAccordingToDataType",
    unpackDataSegmentInitializerAccordingToDataType(declaration.dataType,
                                                    declaration.initializer))

NextDeclaration ==
  \/ ProcessLocalDeclaration
  \/ ProcessDataSegmentVariableDeclaration
  \/ UnpackLocalVariableInitializer
  \/ UnpackDataSegmentInitializer

SpecDeclaration == InitDeclaration /\ [][NextDeclaration]_vars

(***************************************************************************)
(* Claims about initializers and declarations (SpecDeclaration).           *)
(***************************************************************************)
UnpackedLocal == phase = "unpackLocalVariableInitializerAccordingToDataType"

UnpackedDataSegment == phase = "unpackDataSegmentInitializerAccordingToDataType"

\* a brace list of n > 0 or more expressions 0, which every scalar accepts
ZeroList(initializer, n) ==
  /\ initializer.type = "InitializerList"
  /\ Len(initializer.values) >= n
  /\ \A i \in 1..Len(initializer.values) : initializer.values[i] = InitializerSingle(Zero)

\* the number of scalar members of a data type
NumberOfScalars(dataType) ==
  IF dataType.type \in {"array", "struct"} THEN Len(unpackDataType(dataType)) ELSE 1

\* the first element of an array, the first field of a struct
FirstMember(dataType) ==
  IF dataType.type = "array" THEN dataType.elementDataType ELSE dataType.fields[1].dataType

\* the initializer has more expressions than the type has scalars, at the
\* outer level or in the braces that open its first member
ExcessElements(node) ==
  /\ node.dataType.type # "function"
  /\ node.initializer # Undefined
  /\ \/ ZeroList(node.initializer, NumberOfScalars(node.dataType) + 1)
     \/ /\ node.dataType.type \in {"array", "struct"}
        /\ node.initializer.type = "InitializerList"
        /\ Len(node.initializer.values) > 0
        /\ ZeroList(node.initializer.values[1],
                    NumberOfScalars(FirstMember(node.dataType)) + 1)

\* C14: excess elements (local variant): when the initializer list leaves
\* elements unconsumed at the outer level or inside a nested brace list, or a
\* scalar is given a brace list of more than one element,
\* unpackLocalVariableInitializerAccordingToDataType fails with "excess
\* elements in initializer" and returns no stores.
C14_ExcessElementsLocal ==
  (UnpackedLocal /\ ExcessElements(declaration)) =>
    /\ result.threw
    /\ result.message = ExcessElementsError
    /\ result.stores = << >>

RECURSIVE FirstExpression(_)
\* the expression that initializes the first scalar of the declared object
FirstExpression(initializer) ==
  IF initializer.type = "InitializerSingle" THEN initializer.value
  ELSE IF Len(initializer.values) = 0 THEN Undefined
  ELSE FirstExpression(initializer.values[1])

\* C15: data segment initializers must be constant: when a scalar of the
\* declared object is initialized by an expression that is not a compile-time
\* constant, given alone or inside nested brace lists,
\* unpackDataSegmentInitializerAccordingToDataType fails with "initializer
\* element is not constant".
C15_ConstantInitializer ==
  ( /\ UnpackedDataSegment
    /\ declaration.dataType.type # "function"
    /\ declaration.initializer # Undefined
    /\ declaration.initializer.type = "InitializerSingle" => isScalarDataType(declaration.dataType)
    /\ FirstExpression(declaration.initializer) = IntVariable ) =>
    /\ result.threw
    /\ result.message = "initializer element is not constant"

\* C16: a declaration of function type that carries an initializer is
\* rejected with "function 'f' is initialized like a variable", as a global
\* declaration (processDataSegmentVariableDeclaration) and as a local one
\* (processLocalDeclaration).
C16_FunctionInitialized ==
  ( /\ phase \in {"processLocalDeclaration", "processDataSegmentVariableDeclaration"}
    /\ declaration.type = "Declaration"
    /\ declaration.dataType.type = "function"
    /\ declaration.initializer # Undefined ) =>
    /\ result.threw
    /\ result.message = "function '" \o declaration.name \o "' is initialized like a variable"

(***************************************************************************)
(* Further claims about compatibility (SpecCompat).                        *)
(***************************************************************************)
\* C17: two struct types with different tags are never compatible:
\* checkDataTypeCompatibility is false for them in both argument orders and
\* for either value of ignoreQualifiers, even when their field lists are
\* identical and have struct self pointers at the same positions.
C17_DifferentTags ==
  ( /\ phase = "checkDataTypeCompatibility"
    /\ typA.type = "struct" /\ typB.type = "struct"
    /\ typA.tag # typB.tag ) =>
    (~result.ab /\ ~result.ba)

\* struct S and struct T with the same fields, a struct self pointer among
\* them, have been compared
C17_Witness ==
  /\ phase = "checkDataTypeCompatibility"
  /\ typA = ListNode /\ typB = ListNodeT
  /\ typA.fields = typB.fields
  /\ ~result.ab /\ ~result.ba

RECURSIVE Unqualified(_)
\* the data type without its const qualifiers, at the top and nested
Unqualified(t) ==
  CASE t.type \in {"primary", "enum", "void"} -> [t EXCEPT !.isConst = FALSE]
    [] t.type = "pointer" ->
         [t EXCEPT !.isConst = FALSE, !.pointeeType = Unqualified(@)]
    [] t.type = "array" ->
         [t EXCEPT !.isConst = FALSE, !.elementDataType = Unqualified(@)]
    [] t.type = "struct" ->
         [t EXCEPT !.isConst = FALSE,
                   !.fields = [i \in 1..Len(@) |->
                                 [@[i] EXCEPT !.dataType = Unqualified(@)]]]
    [] t.type = "function" ->
         [t EXCEPT !.returnType = Unqualified(@),
                   !.parameters = [i \in 1..Len(@) |-> Unqualified(@[i])]]
    [] OTHER -> t

\* C18: with ignoreQualifiers = true, two data types that differ only in
\* isConst flags, at the top level or nested, are compatible, whichever of the
\* two arguments carries the const.
C18_QualifiersIgnored ==
  ( /\ phase = "checkDataTypeCompatibility"
    /\ ignoreQualifiers
    /\ typA # typB
    /\ Unqualified(typA) = Unqualified(typB) ) =>
    (result.ab /\ result.ba)

(***************************************************************************)
(* Claims about the scopes of loops and the scope stack (SpecVisit).       *)
(***************************************************************************)
\* the step that returns from a ForLoop: its body has been visited
EndForLoop == EndBlock /\ Last(frames).role = "for"

\* C19: the initializer of a for loop has a scope of its own that ends with
\* the loop: the variable it declares can be referred to in the condition and
\* the update, and once the loop has ended a reference to that name raises
\* the undeclared error (unless an enclosing scope declares it) and a
\* declaration of that name in the enclosing block is not a redeclaration
\* (unless that block declares it itself).
C19_ForLoopScope ==
  [][ /\ \A clauses \in ForLoopClauses :
           (clauses[1].type = "Initialization" /\ VisitForLoopOf(clauses)) => error' = ""
      /\ EndForLoop =>
           \A d \in frames[Len(frames) - 1].decls :
              /\ (\A i \in 1..Len(frames') : d \notin frames'[i].decls) =>
                   checkForVariableDeclarationThrows(d[2], scopeStack')
              /\ d[2] \notin DeclaredNames(Last(frames')) =>
                   ~checkForRedeclarationThrows(d[2], Last(scopeStack'))
    ]_vars

\* the visit calls in progress that have opened a scope and not yet closed it
OpenScopes == {i \in 1..Len(frames) : frames[i].kind \in {"Root", "Block", "ForLoop"}}

\* the symbol is an entry of the scope
Recorded(symbol, scope) ==
  CASE symbol[1] = "variable" -> symbol[2] \in DOMAIN scope.variables
    [] symbol[1] = "array" -> symbol[2] \in DOMAIN scope.arrays
    [] symbol[1] = "function" -> symbol[2] \in DOMAIN scope.functions
    [] OTHER -> TRUE

\* C20: scope stack discipline: while the visitor runs, the scope stack holds
\* exactly the scopes of the constructs being visited, so that a statement or
\* top-level item that has been visited leaves the stack as it found it; when
\* the visitor is back at the Root between top-level children only the root
\* scope is on the stack; the root scope is never popped; and every top-level
\* function, variable and array is recorded in the root scope.
C20_ScopeStackDiscipline ==
  (error = "" /\ frames # << >>) =>
    /\ Len(scopeStack) = Cardinality(OpenScopes)
    /\ Len(frames) = 1 => Len(scopeStack) = 1
    /\ Len(scopeStack) >= 1
    /\ \A symbol \in frames[1].decls : Recorded(symbol, scopeStack[1])

(***************************************************************************)
(* Further claims about the local initializer unpacker (SpecDeclaration).  *)
(***************************************************************************)
\* a brace list of expressions 0 that covers fewer scalars than the declared
\* array or struct has
ShortZeroList(node) ==
  /\ node.dataType.type \in {"array", "struct"}
  /\ node.initializer # Undefined
  /\ ZeroList(node.initializer, 0)
  /\ Len(node.initializer.values) < NumberOfScalars(node.dataType)

\* the value of a store is the zero of a scalar type
IsZeroConstant(value) ==
  value.type \in {"IntegerConstant", "FloatConstant"} /\ value.value = 0

\* C21: zero filling (local variant): when a brace list supplies fewer
\* elements than an array or a struct has scalar members, processing succeeds
\* and every member the list does not cover receives one MemoryStore of the
\* zero of its scalar type, for structs as well as for arrays.
C21_ZeroFilling ==
  (UnpackedLocal /\ ShortZeroList(declaration)) =>
    /\ ~result.threw
    /\ Len(result.stores) = NumberOfScalars(declaration.dataType)
    /\ \A i \in 1..Len(result.stores) : IsZeroConstant(result.stores[i].value)

\* the first member of the declared object is a struct P, the list gives it
\* one expression of type struct P and gives every scalar after it a 0
WholeStructFirst(node) ==
  /\ node.dataType.type \in {"array", "struct"}
  /\ FirstMember(node.dataType) = Pair
  /\ node.initializer # Undefined
  /\ node.initializer.type = "InitializerList"
  /\ Len(node.initializer.values) = NumberOfScalars(node.dataType) - NumberOfScalars(Pair) + 1
  /\ node.initializer.values[1] = InitializerSingle(PairVariable)
  /\ \A i \in 2..Len(node.initializer.values) :
        node.initializer.values[i] = InitializerSingle(Zero)

\* C22: whole-aggregate consumption (local variant): when the member being
\* initialized is a struct and the list element at the cursor is a single
\* expression of a compatible struct type, that element is consumed as a
\* whole: one store per primary of the struct, taken from the expression, and
\* the cursor moves on by exactly one, so that the next list element
\* initializes the next member; for an array element and for a field of an
\* enclosing struct alike.
C22_WholeAggregate ==
  (UnpackedLocal /\ WholeStructFirst(declaration)) =>
    /\ ~result.threw
    /\ Len(result.stores) = NumberOfScalars(declaration.dataType)
    /\ \A i \in 1..NumberOfScalars(Pair) :
          /\ result.stores[i].value = processExpression(PairVariable).exprs[i]
          /\ result.stores[i].dataType = unpackDataType(Pair)[i].dataType
    /\ \A i \in (NumberOfScalars(Pair) + 1)..Len(result.stores) :
          result.stores[i].value = processExpression(Zero).exprs[1]

\* the last field of the declared struct is a struct self pointer, the list
\* gives it a pointer and gives the fields before it zeros
SelfPointerLast(node) ==
  /\ node \in SelfPointerDeclarations
  /\ Front(node.initializer.values) \in ZeroFronts(node.dataType)

\* C23: struct self pointer fields are checked against the enclosing struct:
\* the expression that initializes a struct self pointer field of struct S is
\* accepted if and only if it is assignable to "pointer to S", and is rejected
\* with the incompatible types error of that check otherwise, also when S has
\* a field of another struct type that is initialized before it.
C23_SelfPointerCheck ==
  (UnpackedLocal /\ SelfPointerLast(declaration)) =>
    LET q == processExpression(Last(declaration.initializer.values).value)
        check == checkIntializerExpressionAssignability(
                   PointerDataType(declaration.dataType, FALSE), q)
    IN /\ result.threw = check.threw
       /\ result.message = check.message

(***************************************************************************)
(* Claims about the data segment initializer unpacker (SpecDeclaration).   *)
(***************************************************************************)
RECURSIVE OnlyZeros(_)
\* every expression of the initializer is the constant 0
OnlyZeros(initializer) ==
  IF initializer.type = "InitializerSingle" THEN initializer.value = Zero
  ELSE \A i \in 1..Len(initializer.values) : OnlyZeros(initializer.values[i])

\* C24: excess elements (data segment variant): for an initializer of
\* constants, unpackDataSegmentInitializerAccordingToDataType fails with
\* "excess elements in initializer" in exactly the cases in which
\* unpackLocalVariableInitializerAccordingToDataType does for the same type
\* and initializer.
C24_ExcessElementsDataSegment ==
  ( /\ UnpackedDataSegment
    /\ declaration.dataType.type # "function"
    /\ declaration.initializer # Undefined
    /\ OnlyZeros(declaration.initializer) ) =>
    LET local == unpackLocalVariableInitializerAccordingToDataType(
                   [type |-> "localVariable", dataType |-> declaration.dataType,
                    offset |-> 0],
                   declaration.initializer)
    IN (result.threw /\ result.message = ExcessElementsError)
         <=> (local.threw /\ local.message = ExcessElementsError)

(***************************************************************************)
(* convertFunctionDataTypeToFunctionDetails of src/unnamed/part_001.       *)
(***************************************************************************)
\* the primaries of one parameter, placed at offset, in the order of
\* unpackDataType
unpackedParam_inLayoutOrder(param, offset) ==
  LET unpacked == unpackDataType(param)
  IN [i \in 1..Len(unpacked) |->
        [dataType |-> unpacked[i].dataType, offset |-> offset + unpacked[i].offset]]

\* unpackDataType(param).map(...) and its reverse()
unpackedParam(param, offset) ==
  LET unpacked == unpackDataType(param)
  IN Reverse([i \in 1..Len(unpacked) |->
                [dataType |-> unpacked[i].dataType,
                 offset |-> offset + unpacked[i].offset]])

RECURSIVE pushParameters(_, _, _)
\* the loop over dataType.parameters: offset and functionDetails in turn
pushParameters(parameters, offset, functionDetails) ==
  IF parameters = << >> THEN functionDetails
  ELSE LET param == Head(parameters)
           dataTypeSize == getDataTypeSize(param)
       IN pushParameters(Tail(parameters), offset - dataTypeSize,
            [functionDetails EXCEPT
               !.sizeOfParams = @ + dataTypeSize,
               !.parameters = @ \o unpackedParam(param, offset - dataTypeSize)])

\* the FunctionDetails returned; threw when the call throws instead
convertFunctionDataTypeToFunctionDetails(dataType) ==
  LET returns == dataType.returnType.type # "void"
      initial == [threw |-> FALSE, sizeOfParams |-> 0,
                  sizeOfReturn |-> IF returns THEN getDataTypeSize(dataType.returnType)
                                   ELSE 0,
                  parameters |-> << >>,
                  returnObjects |-> IF returns THEN unpackDataType(dataType.returnType)
                                    ELSE << >>]
  IN IF \/ dataType.returnType.type = "array"
        \/ (returns /\ getDataTypeSizeThrows(dataType.returnType))
        \/ \E i \in 1..Len(dataType.parameters) :
              getDataTypeSizeThrows(dataType.parameters[i])
     THEN [threw |-> TRUE, sizeOfParams |-> 0, sizeOfReturn |-> 0,
           parameters |-> << >>, returnObjects |-> << >>]
     ELSE pushParameters(dataType.parameters, 0, initial)

(***************************************************************************)
(* SpecFunctionDetails: convertFunctionDataTypeToFunctionDetails applied   *)
(* to one function type.                                                   *)
(***************************************************************************)
WithArray ==
  StructDataType("A", <<StructField("a", ArrayDataType(SignedInt, IntegerConstant(MaxNumElements))),
                        StructField("c", SignedChar)>>, FALSE)

DetailParamTypes ==
  { SignedInt, SignedChar, DoubleType, PointerDataType(SignedInt, FALSE),
    EnumDataType("E", FALSE), Pair, ListNode, SelfPointerFirst, WithArray }

DetailReturnTypes ==
  { VoidDataType(FALSE), SignedInt, Pair,
    ArrayDataType(SignedInt, IntegerConstant(MaxNumElements)) }

DetailFunctions ==
  { FunctionDataType(r, ps) :
      r \in DetailReturnTypes, ps \in ParamLists(MaxDetailParams, DetailParamTypes) }

InitFunctionDetails ==
  /\ typA \in DetailFunctions
  /\ typB = NoType
  /\ ignoreQualifiers = FALSE
  /\ exprW = NoExpr
  /\ declaration = NoDeclaration
  /\ fieldTag = NoFieldTag
  /\ phase = "input"
  /\ result = NoResult
  /\ VisitorIdle

ConvertFunctionDataTypeToFunctionDetails ==
  /\ phase = "input"
  /\ phase' = "convertFunctionDataTypeToFunctionDetails"
  /\ result' = convertFunctionDataTypeToFunctionDetails(typA)
  /\ UNCHANGED <<typA, typB, ignoreQualifiers, exprW, declaration, fieldTag>>
  /\ UNCHANGED visitVars

NextFunctionDetails == ConvertFunctionDataTypeToFunctionDetails

SpecFunctionDetails == InitFunctionDetails /\ [][NextFunctionDetails]_vars

(***************************************************************************)
(* Claims about function details (SpecFunctionDetails).                    *)
(***************************************************************************)
RECURSIVE PrimariesBefore(_, _), SizeUpTo(_, _)
\* the number of primaries of the first k parameters
PrimariesBefore(parameters, k) ==
  IF k = 0 THEN 0
  ELSE PrimariesBefore(parameters, k - 1) + Len(unpackDataType(parameters[k]))

\* the size of the first k parameters
SizeUpTo(parameters, k) ==
  IF k = 0 THEN 0 ELSE SizeUpTo(parameters, k - 1) + getDataTypeSize(parameters[k])

\* C25: parameter order in function details:
\* convertFunctionDataTypeToFunctionDetails lists the parameters in
\* declaration order (the primaries of the k-th parameter follow those of the
\* parameters before it, placed below the parameters before it) and lists the
\* primaries of one parameter in reverse layout order, so that their offsets
\* are strictly decreasing.
C25_ParameterOrder ==
  (phase = "convertFunctionDataTypeToFunctionDetails" /\ ~result.threw) =>
    /\ Len(result.parameters) = PrimariesBefore(typA.parameters, Len(typA.parameters))
    /\ \A k \in 1..Len(typA.parameters) :
          LET first == PrimariesBefore(typA.parameters, k - 1) + 1
              last == PrimariesBefore(typA.parameters, k)
              unpacked == unpackDataType(typA.parameters[k])
          IN /\ \A i \in first..last :
                   /\ result.parameters[i].dataType = unpacked[last + 1 - i].dataType
                   /\ result.parameters[i].offset =
                        unpacked[last + 1 - i].offset - SizeUpTo(typA.parameters, k)
             /\ \A i, j \in first..last :
                   i < j => result.parameters[i].offset > result.parameters[j].offset

\* the details of a function of two parameters, the first a struct of more
\* than one primary with a struct self pointer
C25_Witness ==
  /\ phase = "convertFunctionDataTypeToFunctionDetails"
  /\ ~result.threw
  /\ Len(typA.parameters) = 2
  /\ typA.parameters[1] = ListNode
  /\ typA.parameters[2] = WithArray
  /\ Len(result.parameters) = 5
  /\ result.parameters[1].offset > result.parameters[2].offset

(***************************************************************************)
(* Claims about processLocalDeclaration (SpecDeclaration).                 *)
(***************************************************************************)
ProcessedLocal == phase = "processLocalDeclaration"

\* C26: processLocalDeclaration changes the frame of the enclosing function
\* only for true locals: a declaration that yields a localVariable entry
\* increases sizeOfLocals by exactly getDataTypeSize of its type, with or
\* without an initializer, while a declaration that yields a function entry or
\* a data segment (static) entry, and an enum declaration, return an empty
\* list of statements and leave sizeOfLocals unchanged.
C26_FrameEffect ==
  ProcessedLocal =>
    IF declaration.type = "Declaration" /\ addLocalEntry(declaration).type = "localVariable"
    THEN result.sizeOfLocals = getDataTypeSize(declaration.dataType)
    ELSE /\ result.sizeOfLocals = 0
         /\ result.statements = << >>
         /\ ~result.threw

\* a static variable, a function, an enum declaration, and a local with an
\* initializer of several stores have each been processed
C26_WitnessStatic ==
  /\ ProcessedLocal
  /\ declaration.type = "Declaration"
  /\ declaration.storageClass = "static"
  /\ result.sizeOfLocals = 0

C26_Witness ==
  /\ ProcessedLocal
  /\ declaration.type = "Declaration"
  /\ declaration.dataType = Pair
  /\ declaration.initializer # Undefined
  /\ Len(result.statements) = 2
  /\ result.sizeOfLocals = 5

\* C27: the byte string that unpackDataSegmentInitializerAccordingToDataType
\* returns for a type and an accepted initializer, a list shorter than the
\* type included, encodes exactly getDataTypeSize of the type bytes: every
\* scalar member, enum-typed array elements, enum-typed struct fields and
\* struct self-pointer fields included, contributes its bytes.
C27_ByteStrSize ==
  (UnpackedDataSegment /\ ~result.threw) =>
    Len(result.byteStr) = getDataTypeSize(declaration.dataType)

\* C28: for a local type and an accepted initializer,
\* unpackLocalVariableInitializerAccordingToDataType returns exactly one
\* MemoryStore per entry of unpackDataType of the type, in layout order: the
\* i-th store has the scalar type of the i-th entry and targets the local
\* address at the offset of the variable plus the offset of the entry, arrays
\* of enums and structs with self-pointer fields included.
C28_StorePerEntry ==
  (UnpackedLocal /\ ~result.threw) =>
    LET unpacked == unpackDataType(declaration.dataType)
    IN /\ Len(result.stores) = Len(unpacked)
       /\ \A i \in 1..Len(unpacked) :
             /\ result.stores[i].dataType = unpacked[i].dataType
             /\ result.stores[i].offset = 0 + unpacked[i].offset

\* how often the expression named id is written in an initializer
RECURSIVE Written(_, _), WrittenIn(_, _)
WrittenIn(values, id) ==
  IF values = << >> THEN 0
  ELSE Written(Head(values), id) + WrittenIn(Tail(values), id)

Written(initializer, id) ==
  IF initializer.type = "InitializerSingle"
  THEN IF initializer.value.id = id THEN 1 ELSE 0
  ELSE WrittenIn(initializer.values, id)

\* how often the expression named id was passed to processExpression
Passed(calls, id) == Len(SelectSeq(calls, LAMBDA c : c = id))

\* C30: while a local initializer is unpacked, each InitializerSingle
\* expression is passed to processExpression at most once, for every declared
\* type and every shape of the initializer list.
C30_ProcessedOnce ==
  UnpackedLocal =>
    \A i \in 1..Len(result.calls) :
       Passed(result.calls, result.calls[i]) <= Written(declaration.initializer, result.calls[i])

(***************************************************************************)
(* getDataTypeNumberOfPrimaryObjects and                                   *)
(* determineIndexAndDataTypeOfFieldInStruct.  The count is returned as     *)
(* [error, value]: error is the message thrown, "" when none.              *)
(***************************************************************************)
VariableLengthArrayError ==
  "array size must be compile-time constant expression (Variable Length Arrays not supported)"

UnhandledDataTypeError == "getDataTypeNumberOfPrimaryObjects(): unhandled data type"

\* the tag of a struct type declared without one (structDataType.tag === null)
NullTag == "<null>"

RECURSIVE getDataTypeNumberOfPrimaryObjects(_), reduceFields(_, _)
reduceFields(fields, sum) ==
  IF fields = << >> \/ sum.error # "" THEN sum
  ELSE LET field == Head(fields)
           count == IF field.dataType.type = "struct self pointer"
                    THEN [error |-> "", value |-> 1]
                    ELSE getDataTypeNumberOfPrimaryObjects(field.dataType)
       IN reduceFields(Tail(fields),
                       [error |-> count.error, value |-> sum.value + count.value])

\* every data type counted as one primary object
getDataTypeNumberOfPrimaryObjects_one(dataType) == [error |-> "", value |-> 1]

getDataTypeNumberOfPrimaryObjects(dataType) ==
  CASE dataType.type \in {"primary", "pointer", "enum"} -> [error |-> "", value |-> 1]
    [] dataType.type = "array" ->
         IF evaluateCompileTimeExpressionThrows(dataType.numElements)
         THEN [error |-> VariableLengthArrayError, value |-> 0]
         ELSE IF evaluateCompileTimeExpression(dataType.numElements).type = "FloatConstant"
         \* "array size must be an integer-type" is caught and thrown again
         THEN [error |-> VariableLengthArrayError, value |-> 0]
         ELSE LET element == getDataTypeNumberOfPrimaryObjects(dataType.elementDataType)
              IN IF element.error # "" THEN element
                 ELSE [error |-> "",
                       value |-> element.value
                                   * evaluateCompileTimeExpression(dataType.numElements).value]
    [] dataType.type = "struct" -> reduceFields(dataType.fields, [error |-> "", value |-> 0])
    [] OTHER -> [error |-> UnhandledDataTypeError, value |-> 0]

NoMemberError(structDataType, tag) ==
  "struct" \o (IF structDataType.tag # NullTag THEN " " \o structDataType.tag ELSE "")
    \o " has no member named '" \o tag \o "'"

\* the loop over structDataType.fields from the field at index i on
RECURSIVE determineFrom(_, _, _, _)
determineFrom(structDataType, tag, i, currIndex) ==
  IF i > Len(structDataType.fields)
  THEN [threw |-> TRUE, message |-> NoMemberError(structDataType, tag),
        fieldIndex |-> 0, fieldDataType |-> NoType]
  ELSE LET field == structDataType.fields[i]
           count == IF field.dataType.type = "struct self pointer"
                    THEN [error |-> "", value |-> 1]
                    ELSE getDataTypeNumberOfPrimaryObjects(field.dataType)
       IN IF tag = field.tag
          THEN [threw |-> FALSE, message |-> "",
                fieldIndex |-> currIndex, fieldDataType |-> field.dataType]
          ELSE IF count.error # ""
          THEN [threw |-> TRUE, message |-> count.error,
                fieldIndex |-> 0, fieldDataType |-> NoType]
          ELSE determineFrom(structDataType, tag, i + 1, currIndex + count.value)

determineIndexAndDataTypeOfFieldInStruct(structDataType, tag) ==
  determineFrom(structDataType, tag, 1, 0)

(***************************************************************************)
(* SpecField: determineIndexAndDataTypeOfFieldInStruct applied to one      *)
(* struct type and one field tag.                                          *)
(***************************************************************************)
IndexedFieldTypes ==
  { SignedInt, EnumDataType("E", FALSE), StructSelfPointer, Pair, ListNode,
    ArrayDataType(SignedInt, IntegerConstant(MaxNumElements)),
    ArrayDataType(SignedInt, [type |-> "VariableExpr", value |-> 0]) }

\* structs of up to MaxIndexedFields fields tagged x, y, z, ... in this
\* order, with and without a struct tag, and two structs with a repeated tag
IndexedStructs ==
  { StructDataType(tag, [i \in 1..n |-> StructField(FieldTagPool[i], types[i])], FALSE) :
      tag \in {"S", NullTag},
      n \in {0},
      types \in {<< >>} }
  \cup UNION { { StructDataType(tag,
                                [i \in 1..n |-> StructField(FieldTagPool[i], types[i])],
                                FALSE) :
                   tag \in {"S", NullTag}, types \in [1..n -> IndexedFieldTypes] } :
               n \in 1..MaxIndexedFields }
  \cup { StructDataType("D", <<StructField("x", Pair), StructField("y", t),
                                StructField("y", SignedInt)>>, FALSE) :
           t \in {Pair, SignedInt} }

LookedUpTags == { FieldTagPool[i] : i \in 1..(MaxIndexedFields + 1) }

InitField ==
  /\ typA \in IndexedStructs
  /\ typB = NoType
  /\ ignoreQualifiers = FALSE
  /\ exprW = NoExpr
  /\ declaration = NoDeclaration
  /\ fieldTag \in LookedUpTags
  /\ phase = "input"
  /\ result = NoResult
  /\ VisitorIdle

DetermineIndexAndDataTypeOfFieldInStruct ==
  /\ phase = "input"
  /\ phase' = "determineIndexAndDataTypeOfFieldInStruct"
  /\ result' = determineIndexAndDataTypeOfFieldInStruct(typA, fieldTag)
  /\ UNCHANGED <<typA, typB, ignoreQualifiers, exprW, declaration, fieldTag>>
  /\ UNCHANGED visitVars

NextField == DetermineIndexAndDataTypeOfFieldInStruct

SpecField == InitField /\ [][NextField]_vars

(***************************************************************************)
(* Claims about determineIndexAndDataTypeOfFieldInStruct (SpecField).      *)
(***************************************************************************)
Determined == phase = "determineIndexAndDataTypeOfFieldInStruct"

\* the entries of unpackDataType that a field contributes
EntriesOf(field) ==
  IF field.dataType.type = "struct self pointer" THEN 1 ELSE Len(unpackDataType(field.dataType))

RECURSIVE EntriesBefore(_, _)
EntriesBefore(fields, k) ==
  IF k <= 1 THEN 0 ELSE EntriesBefore(fields, k - 1) + EntriesOf(fields[k - 1])

TaggedFields(structDataType, tag) ==
  { i \in 1..Len(structDataType.fields) : structDataType.fields[i].tag = tag }

FirstTagged(structDataType, tag) ==
  CHOOSE i \in TaggedFields(structDataType, tag) :
    \A j \in TaggedFields(structDataType, tag) : i <= j

\* C29: for every struct with a layout and every field tag of it, fieldIndex
\* is the index in unpackDataType of the struct of the first primary object of
\* the first field with that tag, that is the number of primary objects of the
\* fields before it; for a tag that the struct does not have, the error
\* "struct X has no member named 'y'" is raised.
C29_FieldIndex ==
  (Determined /\ ~unpackDataTypeThrows(typA)) =>
    IF TaggedFields(typA, fieldTag) # {}
    THEN LET k == FirstTagged(typA, fieldTag)
             field == typA.fields[k]
         IN /\ ~result.threw
            /\ result.fieldIndex = EntriesBefore(typA.fields, k)
            /\ result.fieldDataType = field.dataType
            /\ EntriesOf(field) > 0 =>
                 /\ result.fieldIndex + 1 <= Len(unpackDataType(typA))
                 /\ unpackDataType(typA)[result.fieldIndex + 1].dataType =
                      IF field.dataType.type = "struct self pointer" THEN "pointer"
                      ELSE unpackDataType(field.dataType)[1].dataType
    ELSE /\ result.threw
         /\ result.message = NoMemberError(typA, fieldTag)
         /\ typA.tag # NullTag =>
              result.message = "struct " \o typA.tag \o " has no member named '"
                                 \o fieldTag \o "'"

\* the third field of a struct was looked up, after a struct field of two
\* primary objects and a self pointer
C29_Witness ==
  /\ Determined
  /\ Len(typA.fields) = 3
  /\ typA.fields[1].dataType = Pair
  /\ typA.fields[2].dataType = StructSelfPointer
  /\ fieldTag = "z"
  /\ ~result.threw
  /\ result.fieldIndex = 3

\* a tag that the struct does not have was looked up
C29_WitnessNoMember ==
  /\ Determined
  /\ ~unpackDataTypeThrows(typA)
  /\ TaggedFields(typA, fieldTag) = {}
  /\ result.message = "struct S has no member named 'w'"

====
